---------------------------- MODULE Spec2Model ----------------------------
(***************************************************************************)
(* A model of the content pipeline of jmrl: the frontmatter parser and     *)
(* post loader (services/blog.rs), the post entity and its ordering        *)
(* (models/blog.rs), the lookup, the RSS and sitemap generators            *)
(* (services/rss.rs, services/sitemap.rs) and the template renderer        *)
(* (utils/template.rs).                                                    *)
(*                                                                         *)
(* A Rust String is a sequence of one-character strings, so that split,    *)
(* replace, trim and the regular expressions are computed character by     *)
(* character as the code computes them.  Option<T> is a sequence of length *)
(* at most one: <<>> is None, <<v>> is Some(v).                            *)
(***************************************************************************)
EXTENDS Integers, Sequences, FiniteSets, TLC

VARIABLES
    dir,         \* the entries fs::read_dir yields for the posts directory
    loadResult,  \* "pending", or the variant load_posts returned: "Ok" / "Err"
    posts,       \* AppState.posts, the Vec<BlogPost> load_posts returned
    req,         \* the input of the last operation applied
    resp         \* the value that operation returned

vars == <<dir, loadResult, posts, req, resp>>

None == <<>>
Some(v) == <<v>>

(***************************************************************************)
(* Characters                                                              *)
(***************************************************************************)
LowerChars == <<"a","b","c","d","e","f","g","h","i","j","k","l","m",
                "n","o","p","q","r","s","t","u","v","w","x","y","z">>
UpperChars == <<"A","B","C","D","E","F","G","H","I","J","K","L","M",
                "N","O","P","Q","R","S","T","U","V","W","X","Y","Z">>
DigitChars == <<"0","1","2","3","4","5","6","7","8","9">>

\* The characters the model's texts use, in code-point order (str's Ord is
\* byte-wise lexicographic).
CodePoints == <<"\n", " ", "!", "\"", "'", ",", "-", ".", "/">> \o DigitChars
              \o <<":", "<", "=", ">">> \o UpperChars \o <<"[", "]", "_">>
              \o LowerChars

Range(s) == {s[i] : i \in 1..Len(s)}

Code(c) == CHOOSE i \in 1..Len(CodePoints) : CodePoints[i] = c

IsWhitespace(c) == c \in {" ", "\n", "\t", "\r"}

IsAlphanumeric(c) == c \in Range(LowerChars) \cup Range(UpperChars) \cup Range(DigitChars)

ToLowercaseChar(c) ==
    IF c \in Range(UpperChars)
    THEN LowerChars[CHOOSE i \in 1..Len(UpperChars) : UpperChars[i] = c]
    ELSE c

Min(S) == CHOOSE x \in S : \A y \in S : x <= y
Max(S) == CHOOSE x \in S : \A y \in S : x >= y

(***************************************************************************)
(* str operations                                                          *)
(***************************************************************************)
MatchesAt(s, i, pat) ==
    /\ i >= 1
    /\ i + Len(pat) - 1 <= Len(s)
    /\ SubSeq(s, i, i + Len(pat) - 1) = pat

\* The index of the first occurrence of pat in s at or after from; 0 if none.
Find(s, pat, from) ==
    LET I == {i \in from..(Len(s) - Len(pat) + 1) : MatchesAt(s, i, pat)}
    IN  IF I = {} THEN 0 ELSE Min(I)

RECURSIVE Split(_, _)
Split(s, pat) ==
    LET i == Find(s, pat, 1)
    IN  IF i = 0 THEN <<s>>
        ELSE <<SubSeq(s, 1, i - 1)>> \o Split(SubSeq(s, i + Len(pat), Len(s)), pat)

RECURSIVE Join(_, _)
Join(parts, sep) ==
    IF parts = <<>> THEN <<>>
    ELSE IF Len(parts) = 1 THEN parts[1]
    ELSE parts[1] \o sep \o Join(Tail(parts), sep)

Replace(s, pat, to) == Join(Split(s, pat), to)

Trim(s) ==
    LET keep == {i \in 1..Len(s) : ~IsWhitespace(s[i])}
    IN  IF keep = {} THEN <<>> ELSE SubSeq(s, Min(keep), Max(keep))

TrimMatches(s, c) ==
    LET keep == {i \in 1..Len(s) : s[i] # c}
    IN  IF keep = {} THEN <<>> ELSE SubSeq(s, Min(keep), Max(keep))

RECURSIVE SplitWhitespace(_)
SplitWhitespace(s) ==
    LET starts == {i \in 1..Len(s) : ~IsWhitespace(s[i])}
    IN  IF starts = {} THEN <<>>
        ELSE LET b == Min(starts)
                 ws == {i \in b..Len(s) : IsWhitespace(s[i])}
                 e == IF ws = {} THEN Len(s) ELSE Min(ws) - 1
             IN  <<SubSeq(s, b, e)>> \o SplitWhitespace(SubSeq(s, e + 1, Len(s)))

StripSuffix(s, suf) ==
    IF Len(s) >= Len(suf) /\ SubSeq(s, Len(s) - Len(suf) + 1, Len(s)) = suf
    THEN Some(SubSeq(s, 1, Len(s) - Len(suf)))
    ELSE None

UnwrapOr(opt, default) == IF opt = None THEN default ELSE opt[1]

\* The end of the line that position i is on: the last index before the next
\* "\n" (the regex `.` matches every character but "\n").
LineEnd(s, i) ==
    LET nl == {j \in i..Len(s) : s[j] = "\n"}
    IN  IF nl = {} THEN Len(s) ELSE Min(nl) - 1

\* The length of the whitespace run that starts at position i.
WhitespaceRun(s, i) ==
    LET stop == {j \in i..Len(s) : ~IsWhitespace(s[j])}
    IN  IF stop = {} THEN Len(s) - i + 1 ELSE Min(stop) - i

(***************************************************************************)
(* models/blog.rs: the post entity                                         *)
(***************************************************************************)
WordsPerMinute == 200
ExcerptWords == 30

Ellipsis == <<".", ".", ".">>

\* The literal "<name>" / "</name>" of generate_excerpt's replace chain.
OpenTag(name) == <<"<">> \o name \o <<">">>
CloseTag(name) == <<"<", "/">> \o name \o <<">">>

IsDigit(c) == c \in Range(DigitChars)

\* Whether s has the shape the format "%Y-%m-%d" reads: digits-digits-digits.
MatchesYmd(s) ==
    LET f == Split(s, <<"-">>)
    IN  /\ Len(f) = 3
        /\ \A i \in 1..3 : f[i] # <<>> /\ \A k \in 1..Len(f[i]) : IsDigit(f[i][k])
        /\ Len(f[2]) <= 2 /\ Len(f[3]) <= 2

\* chrono's DateTime::<FixedOffset>::parse_from_str reads the fields the
\* format names and then builds the DateTime with Parsed::to_datetime, which
\* needs a UTC offset (and a time of day).  "%Y-%m-%d" names neither, so a
\* string of that shape ends in Err(NotEnough) and any other in Err(Invalid).
ParseFromStr(s) ==
    IF MatchesYmd(s)
    THEN [ok |-> FALSE, err |-> "NotEnough"]
    ELSE [ok |-> FALSE, err |-> "Invalid"]

\* .ok().map(|dt| dt.with_timezone(&Utc))
DateParsed(date) ==
    LET r == ParseFromStr(date)
    IN  IF r.ok THEN Some(r.val) ELSE None

MutSlugKeepCase(title) ==
    LET dashed == [i \in 1..Len(title) |->
                      IF IsAlphanumeric(title[i]) THEN title[i] ELSE "-"]
        pieces == SelectSeq(Split(dashed, <<"-">>), LAMBDA p : p # <<>>)
    IN  Join(pieces, <<"-">>)

generate_slug(title) ==
    LET lowered == [i \in 1..Len(title) |-> ToLowercaseChar(title[i])]
        dashed == [i \in 1..Len(lowered) |->
                      IF IsAlphanumeric(lowered[i]) THEN lowered[i] ELSE "-"]
        pieces == SelectSeq(Split(dashed, <<"-">>), LAMBDA p : p # <<>>)
    IN  Join(pieces, <<"-">>)

\* f32 keeps 24 significant bits.
MantissaBits == 24

RECURSIVE FloorLog2(_)
FloorLog2(n) == IF n < 2 THEN 0 ELSE 1 + FloorLog2(n \div 2)

\* num / den rounded to the nearest integer, a tie going to the even one
\* (IEEE 754 roundTiesToEven).  den is even.
RoundHalfEven(num, den) ==
    LET q == num \div den
        r == num % den
    IN  IF r < den \div 2 THEN q
        ELSE IF r > den \div 2 THEN q + 1
        ELSE IF q % 2 = 0 THEN q ELSE q + 1

\* `word_count as f32`: the nearest f32 to the integer n, as an integer.
AsF32(n) ==
    IF n < 2^MantissaBits THEN n
    ELSE 2^(FloorLog2(n) - MantissaBits + 1)
         * RoundHalfEven(n, 2^(FloorLog2(n) - MantissaBits + 1))

\* `(x / 200.0).ceil()` for an f32 x that holds an integer: the quotient
\* k + r/200 is rounded to f32 (a multiple of 2^-(frac) at k's exponent)
\* before ceil is taken.  Quotients below 2^(MantissaBits - 1).
CeilOfQuotient(x) ==
    LET k == x \div WordsPerMinute
        r == x % WordsPerMinute
        frac == MantissaBits - 1 - FloorLog2(k)
    IN  IF r = 0 THEN k
        ELSE IF k = 0 THEN 1
        ELSE IF RoundHalfEven(r * 2^frac, WordsPerMinute) > 0 THEN k + 1
        ELSE k

\* `((word_count as f32 / 200.0).ceil() as u32).max(1)`
ReadingTimeOf(word_count) ==
    IF CeilOfQuotient(AsF32(word_count)) < 1 THEN 1
    ELSE CeilOfQuotient(AsF32(word_count))

calculate_reading_time(content) == ReadingTimeOf(Len(SplitWhitespace(content)))

\* generate_excerpt's chain of String::replace calls, in the order applied.
TagReplacements ==
    <<  <<OpenTag(<<"h","2">>), <<>>>>,  <<CloseTag(<<"h","2">>), <<" ">>>>,
        <<OpenTag(<<"h","3">>), <<>>>>,  <<CloseTag(<<"h","3">>), <<" ">>>>,
        <<OpenTag(<<"h","4">>), <<>>>>,  <<CloseTag(<<"h","4">>), <<" ">>>>,
        <<OpenTag(<<"p">>), <<>>>>,      <<CloseTag(<<"p">>), <<" ">>>>,
        <<OpenTag(<<"l","i">>), <<>>>>,  <<CloseTag(<<"l","i">>), <<" ">>>>,
        <<OpenTag(<<"u","l">>), <<>>>>,  <<CloseTag(<<"u","l">>), <<" ">>>>,
        <<OpenTag(<<"o","l">>), <<>>>>,  <<CloseTag(<<"o","l">>), <<" ">>>>,
        <<OpenTag(<<"b","r">>), <<" ">>>>,
        <<OpenTag(<<"b","r"," ","/">>), <<" ">>>>,
        <<OpenTag(<<"e","m">>), <<>>>>,  <<CloseTag(<<"e","m">>), <<>>>>,
        <<OpenTag(<<"s","t","r","o","n","g">>), <<>>>>,
        <<CloseTag(<<"s","t","r","o","n","g">>), <<>>>>,
        <<OpenTag(<<"b","l","o","c","k","q","u","o","t","e">>), <<>>>>,
        <<CloseTag(<<"b","l","o","c","k","q","u","o","t","e">>), <<" ">>>> >>

\* (an empty string is returned at once: no pattern occurs in it)
RECURSIVE ReplaceAllOf(_, _)
ReplaceAllOf(s, reps) ==
    IF reps = <<>> \/ s = <<>> THEN s
    ELSE ReplaceAllOf(Replace(s, reps[1][1], reps[1][2]), Tail(reps))

CodeOpen == <<"<","p","r","e",">","<","c","o","d","e">>
CodeClose == <<"<","/","c","o","d","e",">","<","/","p","r","e",">">>

\* Regex `<pre><code.*?</code></pre>` at position i: the end of the shortest
\* match starting there, 0 if none.  `.` does not match "\n", so the closing
\* tags must be on the line of the opening ones.
CodeBlockEnd(s, i) ==
    IF ~MatchesAt(s, i, CodeOpen) THEN 0
    ELSE LET from == i + Len(CodeOpen)
             J == {j \in from..(LineEnd(s, from) + 1) : MatchesAt(s, j, CodeClose)}
         IN  IF J = {} THEN 0 ELSE Min(J) + Len(CodeClose) - 1

\* replace_all(<pre><code.*?</code></pre>, " ")
RECURSIVE RemoveCodeBlocks(_)
RemoveCodeBlocks(s) ==
    LET M == {i \in 1..Len(s) : CodeBlockEnd(s, i) # 0}
    IN  IF M = {} THEN s
        ELSE LET i == Min(M)
             IN  SubSeq(s, 1, i - 1) \o <<" ">>
                 \o RemoveCodeBlocks(SubSeq(s, CodeBlockEnd(s, i) + 1, Len(s)))

\* replace_all(\s+, " ")
RECURSIVE CollapseWhitespace(_)
CollapseWhitespace(s) ==
    LET W == {i \in 1..Len(s) : IsWhitespace(s[i])}
    IN  IF W = {} THEN s
        ELSE LET i == Min(W)
             IN  SubSeq(s, 1, i - 1) \o <<" ">>
                 \o CollapseWhitespace(SubSeq(s, i + WhitespaceRun(s, i), Len(s)))

\* generate_excerpt's `cleaned`: tags replaced, code blocks removed, whitespace
\* collapsed and trimmed.
CleanedText(content) ==
    Trim(CollapseWhitespace(RemoveCodeBlocks(ReplaceAllOf(content, TagReplacements))))

MutTruncateWordsBelowLimit(cleaned, words) ==
    IF Len(words) < ExcerptWords
    THEN cleaned
    ELSE Join(SubSeq(words, 1, ExcerptWords), <<" ">>) \o Ellipsis

\* `if words.len() <= 30 { cleaned } else { words[..30].join(" ") + "..." }`
TruncateWords(cleaned, words) ==
    IF Len(words) <= ExcerptWords
    THEN cleaned
    ELSE Join(SubSeq(words, 1, ExcerptWords), <<" ">>) \o Ellipsis

ExcerptOf(cleaned) == TruncateWords(cleaned, SplitWhitespace(cleaned))

generate_excerpt(content) == ExcerptOf(CleanedText(content))

BlogPost_new(title, date, description, content, path, tags) ==
    [ title        |-> title,
      date         |-> date,
      date_parsed  |-> DateParsed(date),
      description  |-> description,
      content      |-> content,
      path         |-> path,
      slug         |-> generate_slug(title),
      tags         |-> tags,
      reading_time |-> calculate_reading_time(content),
      excerpt      |-> generate_excerpt(content) ]

\* DateTime<Utc> is a record [year, month, day] (midnight UTC).
DateKey(dt) == dt.year * 10000 + dt.month * 100 + dt.day

IntCmp(a, b) == IF a < b THEN "Less" ELSE IF a > b THEN "Greater" ELSE "Equal"

\* str's Ord: lexicographic by code point, a proper prefix first.
RECURSIVE StrCmp(_, _)
StrCmp(a, b) ==
    IF a = <<>> /\ b = <<>> THEN "Equal"
    ELSE IF a = <<>> THEN "Less"
    ELSE IF b = <<>> THEN "Greater"
    ELSE IF Code(a[1]) # Code(b[1]) THEN IntCmp(Code(a[1]), Code(b[1]))
    ELSE StrCmp(Tail(a), Tail(b))

MutCmpRawDateAscending(self, other) ==
    IF self.date_parsed # None /\ other.date_parsed # None
    THEN IntCmp(DateKey(other.date_parsed[1]), DateKey(self.date_parsed[1]))
    ELSE IF self.date_parsed # None THEN "Less"
    ELSE IF other.date_parsed # None THEN "Greater"
    ELSE StrCmp(self.date, other.date)

\* impl Ord for BlogPost
BlogPost_cmp(self, other) ==
    IF self.date_parsed # None /\ other.date_parsed # None
    THEN IntCmp(DateKey(other.date_parsed[1]), DateKey(self.date_parsed[1]))
    ELSE IF self.date_parsed # None THEN "Less"
    ELSE IF other.date_parsed # None THEN "Greater"
    ELSE StrCmp(other.date, self.date)

\* impl PartialEq for BlogPost
BlogPost_eq(self, other) == self.path = other.path

TwoDigits(n) == <<DigitChars[((n \div 10) % 10) + 1], DigitChars[(n % 10) + 1]>>

FourDigits(n) == TwoDigits(n \div 100) \o TwoDigits(n % 100)

\* DateTime<Utc>::to_rfc3339
ToRfc3339(dt) ==
    FourDigits(dt.year) \o <<"-">> \o TwoDigits(dt.month) \o <<"-">> \o TwoDigits(dt.day)
    \o <<"T","0","0",":","0","0",":","0","0","+","0","0",":","0","0">>

iso_date(post) ==
    IF post.date_parsed # None THEN ToRfc3339(post.date_parsed[1]) ELSE post.date

\* Vec::sort: a stable sort by BlogPost_cmp.  Each element is inserted before
\* the first element of the sorted prefix that compares Greater than it.
SortedInsert(sorted, x) ==
    LET G == {i \in 1..Len(sorted) : BlogPost_cmp(sorted[i], x) = "Greater"}
        k == IF G = {} THEN Len(sorted) + 1 ELSE Min(G)
    IN  SubSeq(sorted, 1, k - 1) \o <<x>> \o SubSeq(sorted, k, Len(sorted))

RECURSIVE SortPosts(_)
SortPosts(v) ==
    IF v = <<>> THEN <<>>
    ELSE SortedInsert(SortPosts(SubSeq(v, 1, Len(v) - 1)), v[Len(v)])

(***************************************************************************)
(* Result<T>: [ok |-> TRUE, val |-> v] is Ok(v), [ok |-> FALSE, err |-> e] *)
(* is Err(AppError::e).                                                    *)
(***************************************************************************)
Ok(v) == [ok |-> TRUE, val |-> v]
Err(e) == [ok |-> FALSE, err |-> e]

(***************************************************************************)
(* services/blog.rs: the frontmatter parser and the loader                 *)
(***************************************************************************)
Delimiter == <<"-","-","-">>

\* Regex `{field}:\s*(.+)` tried at position s of the frontmatter: the span of
\* capture group 1, <<>> when the regex does not match there.  `\s*` is greedy
\* and also takes line breaks; it gives characters back until `.+` finds a
\* character other than "\n" to start on, and `.+` then runs to the line's end.
FieldCaptureAt(frontmatter, field, s) ==
    IF ~MatchesAt(frontmatter, s, field \o <<":">>) THEN <<>>
    ELSE LET p == s + Len(field) + 1
             K == {k \in 0..WhitespaceRun(frontmatter, p) :
                      p + k <= Len(frontmatter) /\ frontmatter[p + k] # "\n"}
         IN  IF K = {} THEN <<>>
             ELSE <<p + Max(K), LineEnd(frontmatter, p + Max(K))>>

extract_frontmatter_field(frontmatter, field) ==
    LET M == {s \in 1..Len(frontmatter) : FieldCaptureAt(frontmatter, field, s) # <<>>}
    IN  IF M = {} THEN Err("BlogParsing")
        ELSE LET cap == FieldCaptureAt(frontmatter, field, Min(M))
             IN  Ok(TrimMatches(Trim(SubSeq(frontmatter, cap[1], cap[2])), "\""))

\* Regex `{field}:\s*\[(.*?)\]` tried at position s: the span of capture
\* group 1 (possibly empty, <<b, b - 1>>), <<>> when there is no match.
ListCaptureAt(frontmatter, field, s) ==
    IF ~MatchesAt(frontmatter, s, field \o <<":">>) THEN <<>>
    ELSE LET p == s + Len(field) + 1
             b == p + WhitespaceRun(frontmatter, p)
             J == {j \in (b + 1)..LineEnd(frontmatter, b + 1) : frontmatter[j] = "]"}
         IN  IF b > Len(frontmatter) \/ frontmatter[b] # "[" \/ J = {} THEN <<>>
             ELSE <<b + 1, Min(J) - 1>>

extract_frontmatter_list(frontmatter, field) ==
    LET M == {s \in 1..Len(frontmatter) : ListCaptureAt(frontmatter, field, s) # <<>>}
    IN  IF M = {} THEN Ok(<<>>)
        ELSE LET cap == ListCaptureAt(frontmatter, field, Min(M))
                 items == Split(SubSeq(frontmatter, cap[1], cap[2]), <<",">>)
                 tags == [i \in 1..Len(items) |->
                             TrimMatches(TrimMatches(Trim(items[i]), "\""), "'")]
             IN  Ok(SelectSeq(tags, LAMBDA t : t # <<>>))

\* pulldown_cmark's Parser + html::push_html on the fragment of markdown the
\* model's documents use: paragraphs of plain text separated by blank lines,
\* each rendered as "<p>" lines "</p>\n".
RECURSIVE RenderParagraphs(_, _)
RenderParagraphs(lines, open) ==
    LET close == IF open = <<>> THEN <<>>
                 ELSE <<"<","p",">">> \o Join(open, <<"\n">>) \o <<"<","/","p",">","\n">>
    IN  IF lines = <<>> THEN close
        ELSE IF Trim(lines[1]) = <<>>
             THEN close \o RenderParagraphs(Tail(lines), <<>>)
             ELSE RenderParagraphs(Tail(lines), Append(open, Trim(lines[1])))

MarkdownToHtml(markdown) == RenderParagraphs(Split(markdown, <<"\n">>), <<>>)

MutTooFewParts(parts) == Len(parts) < 2

\* `parts.len() < 3`: fewer than two delimiters in the document
TooFewParts(parts) == Len(parts) < 3

\* The second half of parse_blog_post: each `?` returns the field's error,
\* otherwise the post is built from the fields.
PostFromFields(title, date, description, tags, markdown, filename) ==
    IF ~title.ok THEN title
    ELSE IF ~date.ok THEN date
    ELSE IF ~description.ok THEN description
    ELSE Ok(Some(BlogPost_new(title.val, date.val, description.val,
                              MarkdownToHtml(markdown),
                              UnwrapOr(StripSuffix(filename, <<".","m","d">>), filename),
                              IF tags.ok THEN tags.val ELSE <<>>)))

\* parts[1] is the frontmatter, parts[2..] rejoined the markdown (0-based).
ParseParts(parts, filename) ==
    IF TooFewParts(parts) THEN Ok(None)
    ELSE PostFromFields(extract_frontmatter_field(parts[2], <<"t","i","t","l","e">>),
                        extract_frontmatter_field(parts[2], <<"d","a","t","e">>),
                        extract_frontmatter_field(parts[2], <<"d","e","s","c","r","i","p","t","i","o","n">>),
                        extract_frontmatter_list(parts[2], <<"t","a","g","s">>),
                        Join(SubSeq(parts, 3, Len(parts)), Delimiter),
                        filename)

\* Ok(None), Ok(Some(post)) or Err(BlogParsing)
parse_blog_post(content, filename) == ParseParts(Split(content, Delimiter), filename)

\* Path::extension and Path::file_stem of a file name: the part after and the
\* part before the last "." (a name without "." has no extension).
Extension(name) ==
    LET dots == {i \in 2..Len(name) : name[i] = "."}
    IN  IF dots = {} THEN None ELSE Some(SubSeq(name, Max(dots) + 1, Len(name)))

FileStem(name) ==
    LET dots == {i \in 2..Len(name) : name[i] = "."}
    IN  IF dots = {} THEN name ELSE SubSeq(name, 1, Max(dots) - 1)

\* The loop of load_posts over the directory entries: the posts pushed so
\* far, or the first error, which `?` returns at once.
RECURSIVE CollectPosts(_, _)
RECURSIVE PushParsed(_, _, _)
PushParsed(parsed, rest, acc) ==
    IF ~parsed.ok THEN parsed
    ELSE CollectPosts(rest, IF parsed.val = None THEN acc ELSE Append(acc, parsed.val[1]))

CollectPosts(entries, acc) ==
    IF entries = <<>> THEN Ok(acc)
    ELSE IF Extension(entries[1].name) # Some(<<"m","d">>)
         THEN CollectPosts(Tail(entries), acc)
         ELSE PushParsed(parse_blog_post(entries[1].content, FileStem(entries[1].name)),
                         Tail(entries), acc)

\* posts.sort(); Ok(posts)
SortCollected(collected) ==
    IF ~collected.ok THEN collected ELSE Ok(SortPosts(collected.val))

\* d is None when neither content/posts nor assets/posts can be read.
load_posts(d) ==
    IF d = None THEN Err("Io") ELSE SortCollected(CollectPosts(d[1], <<>>))

MutGetPostSlugOnly(collection, slug) ==
    LET M == {i \in 1..Len(collection) : collection[i].slug = slug}
    IN  IF M = {} THEN None ELSE Some(Min(M))

MutGetPostSlugFirst(collection, slug) ==
    LET S == {i \in 1..Len(collection) : collection[i].slug = slug}
        P == {i \in 1..Len(collection) : collection[i].path = slug}
    IN  IF S # {} THEN Some(Min(S)) ELSE IF P # {} THEN Some(Min(P)) ELSE None

\* Option<&BlogPost>: Some(i) refers to the element at position i.
get_post_by_slug(collection, slug) ==
    LET M == {i \in 1..Len(collection) :
                 collection[i].slug = slug \/ collection[i].path = slug}
    IN  IF M = {} THEN None ELSE Some(Min(M))

(***************************************************************************)
(* config.rs: the site configuration the generators read                   *)
(***************************************************************************)
SiteConfig ==
    [ site |-> [ title       |-> <<"S","i","t","e">>,
                 domain      |-> <<"x",".","i","o">>,
                 description |-> <<"B","l","o","g">>,
                 author      |-> <<"M","e">>,
                 language    |-> <<"e","n">> ],
      analytics |-> [ google_analytics_id |-> Some(<<"G","1">>) ] ]

(***************************************************************************)
(* services/rss.rs                                                         *)
(***************************************************************************)
FeedLimit == 20

MutTakeNoLimit(s, n) == s

\* Iterator::take
Take(s, n) == SubSeq(s, 1, IF Len(s) < n THEN Len(s) ELSE n)

PostLink(config, post) == <<"h","t","t","p","s",":","/","/">> \o config.site.domain \o <<"/","b","l","o","g","/">> \o post.slug

AuthorLine(config) == config.site.author \o <<" ","(","j","u","a","n","@","j","r","a","d","a",".","d","e","v",")">>

FeedItem(config, post) ==
    [ title       |-> Some(post.title),
      link        |-> Some(PostLink(config, post)),
      description |-> Some(post.description),
      pub_date    |-> Some(iso_date(post)),
      guid        |-> Some([value |-> PostLink(config, post), permalink |-> TRUE]),
      author      |-> Some(AuthorLine(config)),
      categories  |-> [i \in 1..Len(post.tags) |-> [name |-> post.tags[i], domain |-> None]] ]

\* The channel generate_feed builds (before Channel::to_string).
generate_feed(config, collection) ==
    LET taken == Take(collection, FeedLimit)
    IN  [ title           |-> config.site.title,
          link            |-> <<"h","t","t","p","s",":","/","/">> \o config.site.domain,
          description     |-> config.site.description,
          language        |-> Some(config.site.language),
          managing_editor |-> Some(AuthorLine(config)),
          webmaster       |-> Some(AuthorLine(config)),
          generator       |-> Some(<<"R","u","s","t"," ","B","l","o","g"," ","E","n","g","i","n","e"," ","v","1",".","0">>),
          ttl             |-> Some(<<"1","4","4","0">>),
          items           |-> [i \in 1..Len(taken) |-> FeedItem(config, taken[i])] ]

(***************************************************************************)
(* services/sitemap.rs                                                     *)
(* A priority is held in tenths: 8 is the 0.8 that {:.1} prints.           *)
(***************************************************************************)
RootPriority == 10
BlogIndexPriority == 9
FeedPriority == 5
RecentPriority == 8
SemiRecentPriority == 7
OlderPriority == 6
RecentRanks == 5
SemiRecentRanks == 10

MutPostPriorityOffByOne(index) ==
    IF index <= RecentRanks THEN RecentPriority
    ELSE IF index <= SemiRecentRanks THEN SemiRecentPriority
    ELSE OlderPriority

\* index is the 0-based position enumerate() gives.
PostPriority(index) ==
    IF index < RecentRanks THEN RecentPriority
    ELSE IF index < SemiRecentRanks THEN SemiRecentPriority
    ELSE OlderPriority

\* iso_date.split('T').next().unwrap_or(&post.date)
PostDate(post) == Split(iso_date(post), <<"T">>)[1]

MutFixedUrlsNoFeed(config) ==
    <<  [ loc |-> <<"h","t","t","p","s",":","/","/">> \o config.site.domain,
          lastmod |-> None, changefreq |-> "weekly", priority |-> RootPriority ],
        [ loc |-> <<"h","t","t","p","s",":","/","/">> \o config.site.domain \o <<"/","b","l","o","g">>,
          lastmod |-> None, changefreq |-> "weekly", priority |-> BlogIndexPriority ] >>

\* The homepage, the blog index and the RSS feed
FixedUrls(config) ==
    <<  [ loc |-> <<"h","t","t","p","s",":","/","/">> \o config.site.domain,
          lastmod |-> None, changefreq |-> "weekly", priority |-> RootPriority ],
        [ loc |-> <<"h","t","t","p","s",":","/","/">> \o config.site.domain \o <<"/","b","l","o","g">>,
          lastmod |-> None, changefreq |-> "weekly", priority |-> BlogIndexPriority ],
        [ loc |-> <<"h","t","t","p","s",":","/","/">> \o config.site.domain \o <<"/","f","e","e","d",".","x","m","l">>,
          lastmod |-> None, changefreq |-> "daily", priority |-> FeedPriority ] >>

PostUrl(config, post, index) ==
    [ loc |-> PostLink(config, post),
      lastmod |-> Some(PostDate(post)),
      changefreq |-> "monthly",
      priority |-> PostPriority(index) ]

\* The <url> elements of the urlset generate_sitemap writes, in order.
generate_sitemap(config, collection) ==
    FixedUrls(config)
    \o [i \in 1..Len(collection) |-> PostUrl(config, collection[i], i - 1)]

(***************************************************************************)
(* The posts directory: the files the loader is run on                     *)
(***************************************************************************)
MaxFiles == 3
MaxPosts == 22

FrontLine(key, value) == key \o <<":"," ">> \o value \o <<"\n">>

Document(frontmatter, body) == <<"-","-","-","\n">> \o frontmatter \o <<"-","-","-","\n">> \o body

File(name, content) == [name |-> name, content |-> content]

FilePool ==
    {   \* well-formed, quoted title, tags
        File(<<"a",".","m","d">>,
             Document(FrontLine(<<"t","i","t","l","e">>, <<"\"","H","e","l","l","o",","," ","W","o","r","l","d","!","\"">>)
                      \o FrontLine(<<"d","a","t","e">>, <<"2","0","2","4","-","0","1","-","0","2">>)
                      \o FrontLine(<<"d","e","s","c","r","i","p","t","i","o","n">>, <<"O","n","e">>)
                      \o FrontLine(<<"t","a","g","s">>, <<"[","x",","," ","\"","y","\"","]">>),
                      <<"o","n","e"," ","t","w","o","\n">>)),
        \* well-formed, a title with the slug of a.md, "---" inside the body
        File(<<"b",".","m","d">>,
             Document(FrontLine(<<"t","i","t","l","e">>, <<"h","e","l","l","o"," ","w","o","r","l","d">>)
                      \o FrontLine(<<"d","a","t","e">>, <<"2","0","2","4","-","0","3","-","0","1">>)
                      \o FrontLine(<<"d","e","s","c","r","i","p","t","i","o","n">>, <<"T","w","o">>),
                      <<"t","h","r","e","e"," ","a","-","-","-","b","\n","\n","f","o","u","r","\n">>)),
        \* well-formed, a file name that is the slug of a.md and b.md, the
        \* date of a.md
        File(<<"h","e","l","l","o","-","w","o","r","l","d",".","m","d">>,
             Document(FrontLine(<<"t","i","t","l","e">>, <<"Z","e","d">>)
                      \o FrontLine(<<"d","a","t","e">>, <<"2","0","2","4","-","0","1","-","0","2">>)
                      \o FrontLine(<<"d","e","s","c","r","i","p","t","i","o","n">>, <<"T","h","r","e","e">>),
                      <<"f","i","v","e","\n">>)),
        \* two delimiters, no description field
        File(<<"n","o","f","i","e","l","d",".","m","d">>,
             Document(FrontLine(<<"t","i","t","l","e">>, <<"D","r","a","f","t">>)
                      \o FrontLine(<<"d","a","t","e">>, <<"2","0","2","4","-","0","4","-","0","4">>),
                      <<"s","i","x","\n">>)),
        \* one delimiter: the frontmatter is never closed
        File(<<"o","p","e","n",".","m","d">>,
             <<"-","-","-","\n">> \o FrontLine(<<"t","i","t","l","e">>, <<"L","o","s","t">>)
             \o FrontLine(<<"d","a","t","e">>, <<"2","0","2","4","-","0","9","-","0","9">>)
             \o FrontLine(<<"d","e","s","c","r","i","p","t","i","o","n">>, <<"S","i","x">>) \o <<"s","e","v","e","n","\n">>),
        \* no delimiter at all
        File(<<"p","l","a","i","n",".","m","d">>, <<"j","u","s","t"," ","t","e","x","t","\n">>),
        \* well-formed, but not a .md file
        File(<<"n","o","t","e","s",".","t","x","t">>,
             Document(FrontLine(<<"t","i","t","l","e">>, <<"N","o","t","e","s">>)
                      \o FrontLine(<<"d","a","t","e">>, <<"2","0","2","4","-","0","8","-","0","8">>)
                      \o FrontLine(<<"d","e","s","c","r","i","p","t","i","o","n">>, <<"S","e","v","e","n">>),
                      <<"e","i","g","h","t","\n">>)),
        \* well-formed, a date that is not YYYY-MM-DD, a stem ending in .md
        File(<<"c",".","m","d",".","m","d">>,
             Document(FrontLine(<<"t","i","t","l","e">>, <<"O","l","d">>)
                      \o FrontLine(<<"d","a","t","e">>, <<"T","u","e"," ","J","a","n"," ","5">>)
                      \o FrontLine(<<"d","e","s","c","r","i","p","t","i","o","n">>, <<"F","o","u","r">>),
                      <<"n","i","n","e","\n">>)) }

\* The sequences of at most n distinct files of S: read_dir yields each file
\* of the directory once, in an order the file system picks.
RECURSIVE Listings(_, _)
Listings(S, n) ==
    IF n = 0 THEN {<<>>}
    ELSE LET shorter == Listings(S, n - 1)
         IN  shorter \cup UNION {{Append(l, f) : f \in S \ Range(l)} :
                                    l \in {k \in shorter : Len(k) = n - 1}}

\* The i-th file of a directory of many well-formed posts, one per day.
ArchiveFile(i) ==
    File(<<"p">> \o TwoDigits(i) \o <<".","m","d">>,
         Document(FrontLine(<<"t","i","t","l","e">>, <<"P","o","s","t"," ">> \o TwoDigits(i))
                  \o FrontLine(<<"d","a","t","e">>, <<"2","0","2","4","-","0","2","-">> \o TwoDigits(i))
                  \o FrontLine(<<"d","e","s","c","r","i","p","t","i","o","n">>, <<"D">> \o TwoDigits(i)),
                  <<"w","\n">>))

Archive(n) == [i \in 1..n |-> ArchiveFile(i)]

Directories ==
    {None} \cup {Some(l) : l \in Listings(FilePool, MaxFiles)}
           \cup {Some(Archive(n)) : n \in (MaxFiles + 1)..MaxPosts}

UnknownKey == <<"n","o","p","e">>

\* The keys a request for /blog/:post is made with: every slug and path of
\* the collection, and one key no post has.
LookupKeys ==
    {posts[i].slug : i \in 1..Len(posts)} \cup {posts[i].path : i \in 1..Len(posts)}
    \cup {UnknownKey}

(***************************************************************************)
(* The server: load the posts once, then answer requests from the snapshot *)
(***************************************************************************)
Init ==
    /\ dir \in Directories
    /\ loadResult = "pending"
    /\ posts = <<>>
    /\ req = [op |-> "none"]
    /\ resp = None

LoadPosts ==
    /\ loadResult = "pending"
    /\ \E r \in {load_posts(dir)} :
          /\ loadResult' = IF r.ok THEN "Ok" ELSE r.err
          /\ posts' = IF r.ok THEN r.val ELSE <<>>
    /\ req' = [op |-> "load_posts"]
    /\ resp' = None
    /\ UNCHANGED dir

\* handlers/web.rs serve_blog_post: the lookup
ServeBlogPost ==
    /\ loadResult = "Ok"
    /\ \E key \in LookupKeys :
          /\ req' = [op |-> "get_post_by_slug", key |-> key]
          /\ resp' = get_post_by_slug(posts, key)
    /\ UNCHANGED <<dir, loadResult, posts>>

ServeRssFeed ==
    /\ loadResult = "Ok"
    /\ req' = [op |-> "generate_feed"]
    /\ resp' = generate_feed(SiteConfig, posts)
    /\ UNCHANGED <<dir, loadResult, posts>>

ServeSitemap ==
    /\ loadResult = "Ok"
    /\ req' = [op |-> "generate_sitemap"]
    /\ resp' = generate_sitemap(SiteConfig, posts)
    /\ UNCHANGED <<dir, loadResult, posts>>

Next ==
    \/ LoadPosts
    \/ ServeBlogPost
    \/ ServeRssFeed
    \/ ServeSitemap

Spec == Init /\ [][Next]_vars

(***************************************************************************)
(* Properties of the loader                                                *)
(***************************************************************************)
\* The number of (non-overlapping) occurrences of the delimiter in a text.
RECURSIVE DelimiterCount(_)
DelimiterCount(text) ==
    LET i == Find(text, Delimiter, 1)
    IN  IF i = 0 THEN 0
        ELSE 1 + DelimiterCount(SubSeq(text, i + Len(Delimiter), Len(text)))

\* The text between the first and the second delimiter.
MetadataBlock(text) ==
    LET first == Find(text, Delimiter, 1)
        second == Find(text, Delimiter, first + Len(Delimiter))
    IN  SubSeq(text, first + Len(Delimiter), second - 1)

\* A required field as the specification describes it: a line that begins
\* with `<field>:` and carries a value.
HasFieldLine(block, field) ==
    \E k \in 1..Len(Split(block, <<"\n">>)) :
        LET line == Split(block, <<"\n">>)[k]
        IN  /\ MatchesAt(line, 1, field \o <<":">>)
            /\ Trim(SubSeq(line, Len(field) + 2, Len(line))) # <<>>

WellFormed(text) ==
    /\ DelimiterCount(text) >= 2
    /\ HasFieldLine(MetadataBlock(text), <<"t","i","t","l","e">>)
    /\ HasFieldLine(MetadataBlock(text), <<"d","a","t","e">>)
    /\ HasFieldLine(MetadataBlock(text), <<"d","e","s","c","r","i","p","t","i","o","n">>)

IsMarkdownFile(entry) ==
    /\ Len(entry.name) > 3
    /\ SubSeq(entry.name, Len(entry.name) - 2, Len(entry.name)) = <<".","m","d">>

\* load_posts has just returned, for a directory that could be read.
Loaded == req.op = "load_posts" /\ dir # None

WithoutEntry(listing, i) == SubSeq(listing, 1, i - 1) \o SubSeq(listing, i + 1, Len(listing))

\* C1: for a readable directory, load_posts returns Ok and the collection
\* holds exactly one post per well-formed .md file; a file that lacks a
\* required field is skipped.
C1_MalformedFilesAreSkipped ==
    Loaded =>
        /\ loadResult = "Ok"
        /\ Len(posts) = Cardinality({i \in 1..Len(dir[1]) :
                            IsMarkdownFile(dir[1][i]) /\ WellFormed(dir[1][i].content)})

\* C2: a document with fewer than two delimiters parses to Ok(None), and the
\* load goes on as if the document were not in the directory: its outcome is
\* the outcome of loading the remaining files.
C2_FewDelimitersIsNoPost ==
    Loaded =>
        \A i \in 1..Len(dir[1]) :
            (IsMarkdownFile(dir[1][i]) /\ DelimiterCount(dir[1][i].content) < 2) =>
                /\ parse_blog_post(dir[1][i].content, FileStem(dir[1][i].name)) = Ok(None)
                /\ \A rest \in {load_posts(Some(WithoutEntry(dir[1], i)))} :
                      /\ loadResult = (IF rest.ok THEN "Ok" ELSE rest.err)
                      /\ posts = (IF rest.ok THEN rest.val ELSE <<>>)

\* A document with fewer than two delimiters comes first, a post was loaded
\* from a file after it.
C2_Witness ==
    /\ Loaded
    /\ loadResult = "Ok"
    /\ Len(dir[1]) >= 2
    /\ IsMarkdownFile(dir[1][1])
    /\ DelimiterCount(dir[1][1].content) < 2
    /\ Len(posts) >= 1

(***************************************************************************)
(* Properties of the lookup                                                *)
(***************************************************************************)
IsLookup == req.op = "get_post_by_slug"

SlugMatches(key) == {i \in 1..Len(posts) : posts[i].slug = key}
PathMatches(key) == {i \in 1..Len(posts) : posts[i].path = key}
Holders(key) == SlugMatches(key) \cup PathMatches(key)

\* C3 as stated: a slug match anywhere in the collection is preferred over a
\* path match; the path is consulted only when no slug matches.
C3_SlugMatchPreferred ==
    IsLookup =>
        resp = IF SlugMatches(req.key) # {} THEN Some(Min(SlugMatches(req.key)))
               ELSE IF PathMatches(req.key) # {} THEN Some(Min(PathMatches(req.key)))
               ELSE None

\* C3 as amended: the lookup returns the first entity, in collection order,
\* whose slug or path equals the key, and absent when there is none.
C3_FirstMatchOnEitherKey ==
    IsLookup =>
        /\ (resp = None) <=> (Holders(req.key) = {})
        /\ resp # None =>
              /\ resp[1] \in Holders(req.key)
              /\ \A j \in 1..(resp[1] - 1) : j \notin Holders(req.key)

\* A post that matches by path only stands before a post that matches by
\* slug, and the lookup returned the former.
C3_Witness ==
    /\ IsLookup
    /\ resp # None
    /\ resp[1] \notin SlugMatches(req.key)
    /\ \E j \in SlugMatches(req.key) : j > resp[1]

\* C4 as stated: looking up an entity's slug or path returns that entity.
C4_RoundTrip ==
    IsLookup => \A i \in Holders(req.key) : resp = Some(i)

\* C4 as amended: looking up an entity's slug or path never returns absent;
\* it returns an entity carrying the key that stands nowhere after it, which
\* is the entity itself when no earlier entity carries the key as slug or path.
C4_RoundTripUpToEarlierHolder ==
    IsLookup =>
        \A i \in Holders(req.key) :
            /\ resp # None
            /\ resp[1] <= i
            /\ resp[1] \in Holders(req.key)
            /\ (\A j \in 1..(i - 1) : j \notin Holders(req.key)) => resp = Some(i)

\* The key is the path of a post that is not the first of the collection, no
\* other post carries it, and the lookup returned that post.
C4_Witness ==
    /\ IsLookup
    /\ Len(posts) >= 2
    /\ resp # None
    /\ resp[1] >= 2
    /\ posts[resp[1]].path = req.key
    /\ Cardinality(Holders(req.key)) = 1

(***************************************************************************)
(* Properties of the collection order                                      *)
(***************************************************************************)
\* a sorts after b: b has a parsed date and a has none; or both have one and
\* a's is the older; or neither has one and a's raw date is the smaller.
SortsAfter(a, b) ==
    \/ a.date_parsed = None /\ b.date_parsed # None
    \/ /\ a.date_parsed # None /\ b.date_parsed # None
       /\ DateKey(a.date_parsed[1]) < DateKey(b.date_parsed[1])
    \/ /\ a.date_parsed = None /\ b.date_parsed = None
       /\ StrCmp(a.date, b.date) = "Less"

\* C5: the collection load_posts returns is ordered newest-first: no post
\* sorts after a post that stands behind it.
C5_NewestFirst ==
    (Loaded /\ loadResult = "Ok") =>
        \A i, j \in 1..Len(posts) : i < j => ~SortsAfter(posts[i], posts[j])

\* Three posts were loaded, from files the directory listed oldest first.
C5_Witness ==
    /\ Loaded
    /\ loadResult = "Ok"
    /\ Len(posts) >= 3
    /\ StrCmp(posts[1].date, posts[Len(posts)].date) = "Greater"
    /\ \E listed \in {CollectPosts(dir[1], <<>>).val} :
          StrCmp(listed[1].date, listed[Len(listed)].date) = "Less"

(***************************************************************************)
(* Properties of the feed and the sitemap                                  *)
(***************************************************************************)
IsFeed == req.op = "generate_feed"
IsSitemap == req.op = "generate_sitemap"

BlogUrl(slug) == <<"h","t","t","p","s",":","/","/">> \o SiteConfig.site.domain \o <<"/","b","l","o","g","/">> \o slug

\* C6: the feed holds min(n, 20) items, the first posts of the collection in
\* collection order; an empty collection gives a channel without items.
C6_FeedHoldsFirstTwenty ==
    IsFeed =>
        /\ Len(resp.items) = (IF Len(posts) < 20 THEN Len(posts) ELSE 20)
        /\ \A i \in 1..Len(resp.items) :
              /\ resp.items[i].title = Some(posts[i].title)
              /\ resp.items[i].description = Some(posts[i].description)
              /\ resp.items[i].link = Some(BlogUrl(posts[i].slug))
              /\ resp.items[i].guid[1].value = BlogUrl(posts[i].slug)

\* A feed was generated from a collection of more than 20 posts.
C6_Witness ==
    /\ IsFeed
    /\ Len(posts) > 20
    /\ Len(resp.items) = 20
    /\ resp.items[20].title = Some(posts[20].title)

\* C7: the sitemap holds 3 + n entries: root, blog index, feed, then one
\* entry per post in collection order.
C7_SitemapEntries ==
    IsSitemap =>
        /\ Len(resp) = 3 + Len(posts)
        /\ resp[1].loc = <<"h","t","t","p","s",":","/","/">> \o SiteConfig.site.domain
        /\ resp[2].loc = <<"h","t","t","p","s",":","/","/">> \o SiteConfig.site.domain \o <<"/","b","l","o","g">>
        /\ resp[3].loc = <<"h","t","t","p","s",":","/","/">> \o SiteConfig.site.domain \o <<"/","f","e","e","d",".","x","m","l">>
        /\ \A i \in 1..Len(posts) : resp[3 + i].loc = BlogUrl(posts[i].slug)

\* A sitemap was generated from a collection of several posts.
C7_Witness ==
    /\ IsSitemap
    /\ Len(posts) >= 3
    /\ Len(resp) = 3 + Len(posts)
    /\ resp[Len(resp)].loc = BlogUrl(posts[Len(posts)].slug)

\* C8: a post entry is "monthly" and its priority depends on its rank only:
\* 0.8 for ranks 0..4, 0.7 for ranks 5..9, 0.6 from rank 10 on; priorities
\* never increase along the collection and stay below the blog index's 0.9.
C8_PriorityTiers ==
    IsSitemap =>
        \A i \in 4..Len(resp) :
            LET rank == i - 4
            IN  /\ resp[i].changefreq = "monthly"
                /\ resp[i].priority = (IF rank <= 4 THEN 8 ELSE IF rank <= 9 THEN 7 ELSE 6)
                /\ i > 4 => resp[i].priority <= resp[i - 1].priority
                /\ resp[i].priority < 9
                /\ resp[i].priority < resp[2].priority

\* A sitemap with posts in all three tiers.
C8_Witness ==
    /\ IsSitemap
    /\ Len(posts) > 10
    /\ resp[4].priority = 8
    /\ resp[9].priority = 7
    /\ resp[14].priority = 6

(***************************************************************************)
(* utils/template.rs: the template renderer                                *)
(***************************************************************************)
Placeholder(key) == <<"<","!","-","-"," ">> \o key \o <<" ","-","-",">">>

\* The loop `for (key, value) in context`: entries is the sequence of
\* <<key, value>> pairs in the order the HashMap's iterator yields them.
RECURSIVE SubstituteContext(_, _)
SubstituteContext(rendered, entries) ==
    IF entries = <<>> THEN rendered
    ELSE SubstituteContext(Replace(rendered, Placeholder(entries[1][1]), entries[1][2]),
                           Tail(entries))

SubstituteSite(rendered, config) ==
    Replace(Replace(Replace(Replace(rendered,
        Placeholder(<<"S","I","T","E","_","T","I","T","L","E">>), config.site.title),
        Placeholder(<<"S","I","T","E","_","D","E","S","C","R","I","P","T","I","O","N">>), config.site.description),
        Placeholder(<<"S","I","T","E","_","A","U","T","H","O","R">>), config.site.author),
        Placeholder(<<"S","I","T","E","_","D","O","M","A","I","N">>), config.site.domain)

AnalyticsScript(ga_id) ==
    <<"<","s","c","r","i","p","t"," ","a","s","y","n","c"," ","s","r","c","=","\"","h","t","t","p","s",":","/","/","w","w","w",".","g","o","o","g","l","e","t","a","g","m","a","n","a","g","e","r",".","c","o","m","/","g","t","a","g","/","j","s","?","i","d","=">> \o ga_id
    \o <<"\"",">","<","/","s","c","r","i","p","t",">","\n","<","s","c","r","i","p","t",">","\n"," "," ","w","i","n","d","o","w",".","d","a","t","a","L","a","y","e","r"," ","="," ","w","i","n","d","o","w",".","d","a","t","a","L","a","y","e","r"," ","|","|"," ","[","]",";","\n">>
    \o <<" "," ","f","u","n","c","t","i","o","n"," ","g","t","a","g","(",")","{","d","a","t","a","L","a","y","e","r",".","p","u","s","h","(","a","r","g","u","m","e","n","t","s",")",";","}","\n"," "," ","g","t","a","g","(","'","j","s","'",","," ","n","e","w"," ","D","a","t","e","(",")",")",";","\n">>
    \o <<" "," ","g","t","a","g","(","'","c","o","n","f","i","g","'",","," ","'">> \o ga_id \o <<"'",")",";","\n","<","/","s","c","r","i","p","t",">">>

SubstituteAnalytics(rendered, config) ==
    IF config.analytics.google_analytics_id # None
    THEN Replace(rendered, Placeholder(<<"A","N","A","L","Y","T","I","C","S">>),
                 AnalyticsScript(config.analytics.google_analytics_id[1]))
    ELSE Replace(rendered, Placeholder(<<"A","N","A","L","Y","T","I","C","S">>), <<>>)

\* file is what std::fs::read_to_string(template_path) gives: Some(text), or
\* None when the file cannot be read.
render_template(file, entries, config) ==
    IF file = None THEN Err("Template")
    ELSE Ok(SubstituteAnalytics(
                SubstituteSite(SubstituteContext(file[1], entries), config), config))

(***************************************************************************)
(* The templates and contexts the renderer is run on                       *)
(***************************************************************************)
MaxKeys == 2

Text(s) == [kind |-> "text", text |-> s]
Marker(name) == [kind |-> "marker", name |-> name]

\* A template as its pieces: literal text and `<!-- NAME -->` markers.
TemplateSource ==
    [ path \in {"templates/post.html", "templates/blog.html", "templates/index.html"} |->
        CASE path = "templates/post.html" ->
                << Text(<<"<","h","1",">">>), Marker(<<"B","L","O","G","_","T","I","T","L","E">>), Text(<<"<","/","h","1",">">>),
                   Marker(<<"B","L","O","G","_","C","O","N","T","E","N","T">>), Marker(<<"U","N","K","N","O","W","N">>),
                   Text(<<"<","i",">">>), Marker(<<"B","L","O","G","_","T","I","T","L","E">>), Text(<<"<","/","i",">">>) >>
          [] path = "templates/blog.html" ->
                << Marker(<<"S","I","T","E","_","T","I","T","L","E">>), Text(<<"|">>), Marker(<<"B","L","O","G","_","D","A","T","E">>),
                   Marker(<<"B","L","O","G","_","C","O","N","T","E","N","T">>), Text(<<"|">>), Marker(<<"A","N","A","L","Y","T","I","C","S">>) >>
          [] path = "templates/index.html" ->
                << Text(<<"<","a"," ","h","r","e","f","=","\"","h","t","t","p","s",":","/","/">>), Marker(<<"S","I","T","E","_","D","O","M","A","I","N">>), Text(<<"\"",">">>),
                   Marker(<<"S","I","T","E","_","A","U","T","H","O","R">>), Text(<<"<","/","a",">">>), Marker(<<"S","I","T","E","_","D","E","S","C","R","I","P","T","I","O","N">>),
                   Marker(<<"B","L","O","G","_","T","I","T","L","E">>), Marker(<<"b","l","o","g","_","t","i","t","l","e">>) >> ]

PieceText(piece) == IF piece.kind = "text" THEN piece.text ELSE Placeholder(piece.name)

RECURSIVE Concat(_)
Concat(texts) == IF texts = <<>> THEN <<>> ELSE texts[1] \o Concat(Tail(texts))

TemplateText(pieces) == Concat([i \in 1..Len(pieces) |-> PieceText(pieces[i])])

TemplatePaths == DOMAIN TemplateSource \cup {"templates/missing.html"}

\* std::fs::read_to_string
ReadToString(path) ==
    IF path \in DOMAIN TemplateSource THEN Some(TemplateText(TemplateSource[path])) ELSE None

ContextKeyPool == << <<"B","L","O","G","_","T","I","T","L","E">>, <<"B","L","O","G","_","C","O","N","T","E","N","T">>, <<"B","L","O","G","_","D","A","T","E">>, <<"B","L","O","G","_","S","L","U","G">> >>

ContextKeys == {ContextKeyPool[i] : i \in 1..MaxKeys}

ContextValues ==
    { <<"H","i">>, <<>>, <<"<","b",">","x","<","/","b",">">>, Placeholder(<<"B","L","O","G","_","C","O","N","T","E","N","T">>), Placeholder(<<"S","I","T","E","_","T","I","T","L","E">>) }

\* A HashMap<String, String>
Contexts == UNION {[keys -> ContextValues] : keys \in SUBSET ContextKeys}

\* The orders in which a HashMap's iterator can yield the entries of context.
IterationOrders(context) ==
    {order \in [1..Cardinality(DOMAIN context) -> DOMAIN context] :
        \A i, j \in DOMAIN order : i # j => order[i] # order[j]}

Entries(context, order) == [i \in DOMAIN order |-> <<order[i], context[order[i]]>>]

Configs == {SiteConfig, [SiteConfig EXCEPT !.analytics.google_analytics_id = None]}

\* A call of render_template that has not returned yet.
RenderCalls ==
    UNION {{[op |-> "render_template", done |-> FALSE, template_path |-> path,
             context |-> context, order |-> order, config |-> config] :
               path \in TemplatePaths, config \in Configs,
               order \in IterationOrders(context)} : context \in Contexts}

InitTemplate ==
    /\ dir = None
    /\ loadResult = "pending"
    /\ posts = <<>>
    /\ req \in RenderCalls
    /\ resp = None

RenderTemplate ==
    /\ req.op = "render_template"
    /\ ~req.done
    /\ req' = [req EXCEPT !.done = TRUE]
    /\ resp' = render_template(ReadToString(req.template_path),
                               Entries(req.context, req.order), req.config)
    /\ UNCHANGED <<dir, loadResult, posts>>

NextTemplate == RenderTemplate

SpecTemplate == InitTemplate /\ [][NextTemplate]_vars

(***************************************************************************)
(* Properties of the template renderer                                     *)
(***************************************************************************)
\* render_template has returned.
IsRender == req.op = "render_template" /\ req.done

SiteWideNames ==
    { <<"S","I","T","E","_","T","I","T","L","E">>, <<"S","I","T","E","_","D","E","S","C","R","I","P","T","I","O","N">>, <<"S","I","T","E","_","A","U","T","H","O","R">>, <<"S","I","T","E","_","D","O","M","A","I","N">>, <<"A","N","A","L","Y","T","I","C","S">> }

\* What a single substitution of a site-wide marker puts in its place.
SiteWideValue(name, config) ==
    CASE name = <<"S","I","T","E","_","T","I","T","L","E">> -> config.site.title
      [] name = <<"S","I","T","E","_","D","E","S","C","R","I","P","T","I","O","N">> -> config.site.description
      [] name = <<"S","I","T","E","_","A","U","T","H","O","R">> -> config.site.author
      [] name = <<"S","I","T","E","_","D","O","M","A","I","N">> -> config.site.domain
      [] name = <<"A","N","A","L","Y","T","I","C","S">> ->
            IF config.analytics.google_analytics_id = None THEN <<>>
            ELSE AnalyticsScript(config.analytics.google_analytics_id[1])

\* What the claim puts in the place of a piece of the template: the context's
\* value for a marker that names a context key, the marker itself for a marker
\* that names neither a context key nor a site-wide name.
SubstitutedPiece(piece, context, config) ==
    IF piece.kind = "text" THEN piece.text
    ELSE IF piece.name \in DOMAIN context THEN context[piece.name]
    ELSE IF piece.name \in SiteWideNames THEN SiteWideValue(piece.name, config)
    ELSE Placeholder(piece.name)

SubstitutedOnce(pieces, context, config) ==
    Concat([i \in 1..Len(pieces) |-> SubstitutedPiece(pieces[i], context, config)])

\* C9: rendering a readable template succeeds, a marker naming neither a
\* context key nor a site-wide name stays in the output verbatim, and a marker
\* naming a context key is replaced, at each occurrence, by the key's value.
C9_MarkersReplacedOrKept ==
    (IsRender /\ req.template_path \in DOMAIN TemplateSource) =>
        /\ resp.ok
        /\ resp.val = SubstitutedOnce(TemplateSource[req.template_path],
                                      req.context, req.config)

(***************************************************************************)
(* The bodies BlogPost::new is run on                                      *)
(***************************************************************************)
MaxWords == 32

\* The i-th word of a body: w01, w02, ...
Word(i) == <<"w">> \o TwoDigits(i)

Words(n) == [i \in 1..n |-> Word(i)]

Wrap(tag, inner) == OpenTag(tag) \o inner \o CloseTag(tag)

\* Bodies made only of the tags generate_excerpt strips and of one-line code
\* blocks.
PlainShapes == {"paragraph", "paragraphs", "spaced", "heading", "list", "emphasis", "code"}

\* "codelines" has a code block of two lines, "link" an inline tag that
\* generate_excerpt does not strip.
BodyShapes == PlainShapes \cup {"codelines", "link"}

\* An HTML body whose plain text is the words w01 .. wn, in that order.
Body(n, shape) ==
    CASE shape = "paragraph" ->
            IF n = 0 THEN <<>> ELSE Wrap(<<"p">>, Join(Words(n), <<" ">>)) \o <<"\n">>
      [] shape = "paragraphs" ->
            Concat([i \in 1..n |-> Wrap(<<"p">>, Word(i)) \o <<"\n">>])
      [] shape = "spaced" ->
            <<" ","\n">> \o Concat([i \in 1..n |-> Word(i) \o <<" "," ","\n"," ">>])
      [] shape = "heading" ->
            IF n = 0 THEN <<>>
            ELSE Wrap(<<"h","2">>, Word(1)) \o <<"\n">>
                 \o Wrap(<<"p">>, Join(SubSeq(Words(n), 2, n), <<"<","b","r"," ","/",">">>)) \o <<"\n">>
      [] shape = "list" ->
            Wrap(<<"u","l">>, <<"\n">> \o Concat([i \in 1..n |-> Wrap(<<"l","i">>, Word(i)) \o <<"\n">>]))
      [] shape = "emphasis" ->
            Wrap(<<"b","l","o","c","k","q","u","o","t","e">>,
                 Join([i \in 1..n |-> IF i % 2 = 0 THEN Wrap(<<"e","m">>, Word(i))
                                      ELSE Wrap(<<"s","t","r","o","n","g">>, Word(i))], <<" ">>))
      [] shape = "code" ->
            <<"<","p","r","e",">","<","c","o","d","e"," ","c","l","a","s","s","=","\"","l","a","n","g","u","a","g","e","-","r","u","s","t","\"",">","l","e","t"," ","x"," ","="," ","1",";","<","/","c","o","d","e",">","<","/","p","r","e",">">>
            \o Concat([i \in 1..n |-> Wrap(<<"p">>, Word(i)) \o <<"\n">>])
      [] shape = "codelines" ->
            Concat([i \in 1..n |-> Wrap(<<"p">>, Word(i)) \o <<"\n">>])
            \o <<"<","p","r","e",">","<","c","o","d","e",">","l","e","t"," ","x"," ","="," ","1",";","\n","l","e","t"," ","y"," ","="," ","2",";","\n","<","/","c","o","d","e",">","<","/","p","r","e",">","\n">>
      [] shape = "link" ->
            Wrap(<<"p">>, <<"<","a"," ","h","r","e","f","=","\"","/","b","l","o","g","\"",">">> \o Join(Words(n), <<" ">>) \o <<"<","/","a",">">>)

\* Raw date strings of a frontmatter: calendar dates, dates no calendar has,
\* and other notations.
DatePool ==
    { <<"2","0","2","4","-","0","1","-","0","2">>, <<"2","0","2","4","-","1","2","-","3","1">>, <<"2","0","2","3","-","0","2","-","2","8">>, <<"2","0","2","4","-","0","2","-","2","9">>,
      <<"2","0","2","3","-","0","2","-","2","9">>, <<"2","0","2","4","-","1","3","-","0","1">>, <<"2","0","2","4","-","0","4","-","3","1">>, <<"2","0","2","4","-","0","0","-","1","0">>,
      <<"T","u","e"," ","J","a","n"," ","5">>, <<"0","1","/","0","2","/","2","0","2","4">>, <<"2","0","2","4","-","0","1","-","0","2","T","1","0",":","0","0",":","0","0","Z">>, <<>> }

\* A call of BlogPost::new that has not returned yet: every body with one
\* date, and one body with every date.
NewPostCalls ==
    {[op |-> "BlogPost::new", done |-> FALSE, words |-> n, shape |-> shape,
      title |-> <<"M","y"," ","P","o","s","t">>, date |-> <<"2","0","2","4","-","0","1","-","0","2">>, description |-> <<"A","b","o","u","t">>,
      content |-> Body(n, shape), path |-> <<"m","y","-","p","o","s","t">>, tags |-> <<<<"r","u","s","t">>>>] :
        n \in 0..MaxWords, shape \in BodyShapes}
    \cup
    {[op |-> "BlogPost::new", done |-> FALSE, words |-> 2, shape |-> "paragraph",
      title |-> <<"M","y"," ","P","o","s","t">>, date |-> date, description |-> <<"A","b","o","u","t">>,
      content |-> Body(2, "paragraph"), path |-> <<"m","y","-","p","o","s","t">>, tags |-> <<<<"r","u","s","t">>>>] :
        date \in DatePool}

InitPost ==
    /\ dir = None
    /\ loadResult = "pending"
    /\ posts = <<>>
    /\ req \in NewPostCalls
    /\ resp = None

NewPost ==
    /\ req.op = "BlogPost::new"
    /\ ~req.done
    /\ req' = [req EXCEPT !.done = TRUE]
    /\ resp' = BlogPost_new(req.title, req.date, req.description, req.content,
                            req.path, req.tags)
    /\ UNCHANGED <<dir, loadResult, posts>>

NextPost == NewPost

SpecPost == InitPost /\ [][NextPost]_vars

(***************************************************************************)
(* Properties of the post entity                                           *)
(***************************************************************************)
\* BlogPost::new has returned.
IsNewPost == req.op = "BlogPost::new" /\ req.done

EndsWithEllipsis(text) ==
    Len(text) >= 3 /\ SubSeq(text, Len(text) - 2, Len(text)) = <<".",".",".">>

WithoutEllipsis(text) ==
    IF EndsWithEllipsis(text) THEN SubSeq(text, 1, Len(text) - 3) ELSE text

C10_WitnessWhole ==
    /\ IsNewPost
    /\ req.words = 30
    /\ ~EndsWithEllipsis(resp.excerpt)
    /\ SplitWhitespace(resp.excerpt) = Words(30)

(***************************************************************************)
(* The bodies calculate_reading_time is run on                             *)
(***************************************************************************)
MaxCount == 450

\* A body written out, or the body made of `times` copies of a word, each
\* followed by one space.
TextBody(text) == [kind |-> "text", text |-> text]
RepeatBody(word, times) == [kind |-> "repeat", word |-> word, times |-> times]

\* content.split_whitespace().count()
WordCount(body) ==
    IF body.kind = "text" THEN Len(SplitWhitespace(body.text)) ELSE body.times

\* Word counts from the first one an f32 cannot hold exactly.
LargeCounts == {2^MantissaBits + i : i \in 0..MaxCount}

ReadingBodies ==
    {TextBody(Body(n, "paragraph")) : n \in 0..MaxWords}
    \cup {RepeatBody(<<"w">>, n) : n \in (0..MaxCount) \cup LargeCounts}

ReadingCalls ==
    {[op |-> "calculate_reading_time", done |-> FALSE, body |-> body] :
        body \in ReadingBodies}

InitReading ==
    /\ dir = None
    /\ loadResult = "pending"
    /\ posts = <<>>
    /\ req \in ReadingCalls
    /\ resp = None

CalculateReadingTime ==
    /\ req.op = "calculate_reading_time"
    /\ ~req.done
    /\ req' = [req EXCEPT !.done = TRUE]
    /\ resp' = ReadingTimeOf(WordCount(req.body))
    /\ UNCHANGED <<dir, loadResult, posts>>

NextReading == CalculateReadingTime

SpecReading == InitReading /\ [][NextReading]_vars

(***************************************************************************)
(* Properties of the reading time                                          *)
(***************************************************************************)
IsReadingTime == req.op = "calculate_reading_time" /\ req.done

CeilDiv(w, d) == (w + d - 1) \div d

\* C11: for a body of w words the reading time is max(1, ceil(w / 200)): at
\* least 1, 1 for 0 and for 199 words, 2 for 400 words.
C11_ReadingTimeFormula ==
    IsReadingTime =>
        /\ resp >= 1
        /\ resp = Max({1, CeilDiv(WordCount(req.body), 200)})
        /\ WordCount(req.body) \in {0, 199} => resp = 1
        /\ WordCount(req.body) = 400 => resp = 2

\* Up to 2^24 words the word count is exact in f32 and the formula holds.
C11_FormulaWhileExact ==
    (IsReadingTime /\ WordCount(req.body) <= 2^MantissaBits) =>
        resp = Max({1, CeilDiv(WordCount(req.body), 200)})

\* A reading time was computed for a body of 400 words.
C11_Witness == IsReadingTime /\ WordCount(req.body) = 400 /\ resp = 2

(***************************************************************************)
(* The titles generate_slug is run on                                      *)
(***************************************************************************)
MaxTitleLen == 4

TitleChars == {"a", "A", "b", " ", "!", "-"}

\* All strings over chars of length at most n.
RECURSIVE Strings(_, _)
Strings(chars, n) ==
    IF n = 0 THEN {<<>>}
    ELSE Strings(chars, n - 1)
         \cup {Append(t, c) : t \in {u \in Strings(chars, n - 1) : Len(u) = n - 1},
                              c \in chars}

Titles == Strings(TitleChars, MaxTitleLen) \cup {<<"H","e","l","l","o",","," ","W","o","r","l","d","!">>, <<"h","e","l","l","o"," ","w","o","r","l","d">>, <<"R","u","s","t","'","s">>}

ToUppercaseChar(c) ==
    IF c \in Range(LowerChars)
    THEN UpperChars[CHOOSE i \in 1..Len(LowerChars) : LowerChars[i] = c]
    ELSE c

\* A character that is neither a letter, a digit nor whitespace.
IsPunctuation(c) == ~IsAlphanumeric(c) /\ ~IsWhitespace(c)

Lowercased(t) == [i \in 1..Len(t) |-> ToLowercaseChar(t[i])]

WithoutPunctuation(t) == SelectSeq(t, LAMBDA c : ~IsPunctuation(c))

\* A title written differently: other case, punctuation deleted or replaced
\* by a space.
Variant(t, kind) ==
    CASE kind = "lower" -> Lowercased(t)
      [] kind = "upper" -> [i \in 1..Len(t) |-> ToUppercaseChar(t[i])]
      [] kind = "strip" -> WithoutPunctuation(t)
      [] kind = "plain" -> Lowercased(WithoutPunctuation(t))
      [] kind = "space" -> [i \in 1..Len(t) |-> IF IsPunctuation(t[i]) THEN " " ELSE t[i]]

VariantKinds == {"lower", "upper", "strip", "plain", "space"}

SlugCalls ==
    {[op |-> "generate_slug", done |-> FALSE, title |-> t, other |-> Variant(t, kind)] :
        t \in Titles, kind \in VariantKinds}

InitSlug ==
    /\ dir = None
    /\ loadResult = "pending"
    /\ posts = <<>>
    /\ req \in SlugCalls
    /\ resp = None

\* generate_slug on the title, on its own result, and on the other title.
GenerateSlug ==
    /\ req.op = "generate_slug"
    /\ ~req.done
    /\ req' = [req EXCEPT !.done = TRUE]
    /\ resp' = [slug  |-> generate_slug(req.title),
                again |-> generate_slug(generate_slug(req.title)),
                other |-> generate_slug(req.other)]
    /\ UNCHANGED <<dir, loadResult, posts>>

NextSlug == GenerateSlug

SpecSlug == InitSlug /\ [][NextSlug]_vars

(***************************************************************************)
(* Properties of the slug                                                  *)
(***************************************************************************)
IsSlug == req.op = "generate_slug" /\ req.done

\* Two titles differ only by case or punctuation: they are the same text once
\* punctuation is deleted and letters are lower-cased.
DiffersOnlyByCaseOrPunctuation(t, u) ==
    Lowercased(WithoutPunctuation(t)) = Lowercased(WithoutPunctuation(u))

\* The maximal runs of letters and digits of t, in order.
RECURSIVE AlphanumericRuns(_, _, _)
AlphanumericRuns(t, i, run) ==
    IF i > Len(t) THEN (IF run = <<>> THEN <<>> ELSE <<run>>)
    ELSE IF IsAlphanumeric(t[i]) THEN AlphanumericRuns(t, i + 1, Append(run, t[i]))
    ELSE (IF run = <<>> THEN <<>> ELSE <<run>>) \o AlphanumericRuns(t, i + 1, <<>>)

LowerRuns(t) == AlphanumericRuns(Lowercased(t), 1, <<>>)

\* C12: generate_slug is idempotent, and two titles that differ only by case
\* or punctuation have the same slug.
C12_SlugIdempotentAndNormalizing ==
    IsSlug =>
        /\ resp.again = resp.slug
        /\ DiffersOnlyByCaseOrPunctuation(req.title, req.other) => resp.other = resp.slug

\* C12 (amended): generate_slug is idempotent; the slug is the title's runs
\* of letters and digits, lower-cased and joined by "-"; so two titles have
\* the same slug exactly when they have the same lower-cased runs, which
\* covers titles that differ by case and by the punctuation or whitespace
\* between words, but not by punctuation inside a word.
C12_SlugIdempotentSameRuns ==
    IsSlug =>
        /\ resp.again = resp.slug
        /\ resp.slug = Join(LowerRuns(req.title), <<"-">>)
        /\ (LowerRuns(req.title) = LowerRuns(req.other)) <=> (resp.other = resp.slug)

\* "Hello, World!" and "hello world" were both slugged, to hello-world.
C12_Witness ==
    /\ IsSlug
    /\ req.title = <<"H","e","l","l","o",","," ","W","o","r","l","d","!">>
    /\ req.other = <<"h","e","l","l","o"," ","w","o","r","l","d">>
    /\ resp.slug = <<"h","e","l","l","o","-","w","o","r","l","d">>
    /\ resp.other = resp.slug
    /\ resp.again = resp.slug

(***************************************************************************)
(* Properties of the post ordering                                         *)
(***************************************************************************)
\* The dates of a and b compare equal: the same parsed date, or both
\* unparsed with the same raw date string.
DatesCompareEqual(a, b) ==
    \/ /\ a.date_parsed # None /\ b.date_parsed # None
       /\ DateKey(a.date_parsed[1]) = DateKey(b.date_parsed[1])
    \/ a.date_parsed = None /\ b.date_parsed = None /\ a.date = b.date

\* The orders fs::read_dir may list the same files in.
Reorderings(listing) ==
    {l \in Listings(Range(listing), Len(listing)) : Len(l) = Len(listing)}

\* C13: posts whose dates compare equal are ordered by title, so BlogPost::cmp
\* is Equal only for posts of the same title and the loaded collection is the
\* same for every order the directory is listed in.
C13_TitleBreaksTies ==
    (Loaded /\ loadResult = "Ok") =>
        /\ \A i, j \in 1..Len(posts) :
              (i < j /\ DatesCompareEqual(posts[i], posts[j])) =>
                  /\ StrCmp(posts[i].title, posts[j].title) # "Greater"
                  /\ BlogPost_cmp(posts[i], posts[j]) = "Equal" =>
                         posts[i].title = posts[j].title
        /\ Len(dir[1]) <= MaxFiles =>
              \A l \in Reorderings(dir[1]) : load_posts(Some(l)) = Ok(posts)

\* Two posts of the same date were loaded.
C13_Witness ==
    /\ Loaded
    /\ loadResult = "Ok"
    /\ \E i, j \in 1..Len(posts) :
          i < j /\ DatesCompareEqual(posts[i], posts[j]) /\ posts[i].title # posts[j].title

(***************************************************************************)
(* Properties of the substitution order                                    *)
(***************************************************************************)
\* C14: substitution is single-pass: a marker inside a substituted value is
\* not substituted, so the output is the template with each of its own
\* markers replaced once, whatever the order the context keys are visited in.
C14_SinglePass ==
    (IsRender /\ req.template_path \in DOMAIN TemplateSource) =>
        /\ resp = Ok(SubstitutedOnce(TemplateSource[req.template_path],
                                     req.context, req.config))
        /\ \A order \in IterationOrders(req.context) :
              render_template(ReadToString(req.template_path),
                              Entries(req.context, order), req.config) = resp

\* A template was rendered with a value that carries a marker.
C14_Witness ==
    /\ IsRender
    /\ req.template_path \in DOMAIN TemplateSource
    /\ \E key \in DOMAIN req.context :
          req.context[key] = Placeholder(<<"B","L","O","G","_","C","O","N","T","E","N","T">>)

(***************************************************************************)
(* Properties of the sitemap's lastmod                                     *)
(***************************************************************************)
\* The calendar-date part of an RFC 3339 timestamp: its first ten characters.
CalendarDate(timestamp) == SubSeq(timestamp, 1, 10)

\* C15: a post entry's lastmod is the calendar date of the post's timestamp
\* when the post has a parsed date, and the raw date string, unchanged, when
\* it has none.
C15_LastmodIsDateOrRaw ==
    IsSitemap =>
        \A i \in 1..Len(posts) :
            resp[3 + i].lastmod =
                Some(IF posts[i].date_parsed # None
                     THEN CalendarDate(ToRfc3339(posts[i].date_parsed[1]))
                     ELSE posts[i].date)

\* A sitemap was generated for a post whose raw date holds a "T".
C15_Witness ==
    /\ IsSitemap
    /\ \E i \in 1..Len(posts) : "T" \in Range(posts[i].date)

(***************************************************************************)
(* The metadata blocks extract_frontmatter_field is run on                 *)
(***************************************************************************)
MaxLines == 3

LinePool ==
    { <<"t","i","t","l","e",":"," ","A","l","p","h","a">>, <<"t","i","t","l","e",":"," ","\"","Q","u","o","t","e","d","\"">>, <<"t","i","t","l","e",":">>, <<"s","u","b","t","i","t","l","e",":"," ","x">>,
      <<"d","a","t","e",":"," ","2","0","2","4","-","0","1","-","0","2">>, <<"d","e","s","c","r","i","p","t","i","o","n",":"," ","A","b","o","u","t">>, <<"t","a","g","s",":"," ","[","a",","," ","b","]">> }

\* The text between the first two delimiters: a line break, then the lines.
MetadataOf(lines) == <<"\n">> \o Concat([i \in 1..Len(lines) |-> lines[i] \o <<"\n">>])

RequiredFields == { <<"t","i","t","l","e">>, <<"d","a","t","e">>, <<"d","e","s","c","r","i","p","t","i","o","n">> }

FieldCalls ==
    {[op |-> "extract_frontmatter_field", done |-> FALSE, lines |-> lines, field |-> f] :
        lines \in Listings(LinePool, MaxLines), f \in RequiredFields}

InitField ==
    /\ dir = None
    /\ loadResult = "pending"
    /\ posts = <<>>
    /\ req \in FieldCalls
    /\ resp = None

ExtractFrontmatterField ==
    /\ req.op = "extract_frontmatter_field"
    /\ ~req.done
    /\ req' = [req EXCEPT !.done = TRUE]
    /\ resp' = extract_frontmatter_field(MetadataOf(req.lines), req.field)
    /\ UNCHANGED <<dir, loadResult, posts>>

NextField == ExtractFrontmatterField

SpecField == InitField /\ [][NextField]_vars

(***************************************************************************)
(* Properties of the field extraction                                      *)
(***************************************************************************)
IsField == req.op = "extract_frontmatter_field" /\ req.done

\* The line begins with `f:` and has something after the colon.
HoldsField(line, f) ==
    /\ MatchesAt(line, 1, f \o <<":">>)
    /\ Trim(SubSeq(line, Len(f) + 2, Len(line))) # <<>>

\* Everything after the first colon of the line, trimmed of whitespace and of
\* surrounding quotes.
ValueOfLine(line, f) == TrimMatches(Trim(SubSeq(line, Len(f) + 2, Len(line))), "\"")

\* C16: the field is found only on a line that begins with `f:`, and its
\* value is the rest of that line, trimmed of whitespace and surrounding
\* quotes; a block without such a line gives the missing-field failure.
C16_FieldOnItsOwnLine ==
    IsField =>
        \A H \in {{i \in 1..Len(req.lines) : HoldsField(req.lines[i], req.field)}} :
            IF H = {} THEN resp = Err("BlogParsing")
            ELSE resp = Ok(ValueOfLine(req.lines[Min(H)], req.field))

\* A title was asked of a block whose only line with "title:" is a subtitle.
C16_Witness ==
    /\ IsField
    /\ req.field = <<"t","i","t","l","e">>
    /\ req.lines = << <<"s","u","b","t","i","t","l","e",":"," ","x">> >>

(***************************************************************************)
(* Properties of the excerpt's code blocks                                 *)
(***************************************************************************)
\* text occurs in s.
Contains(s, text) == \E i \in 1..Len(s) : MatchesAt(s, i, text)

\* C17: the excerpt holds no text from inside a <pre><code> block, nor the
\* block's tags, also when the block spans several lines.
C17_NoCodeInExcerpt ==
    (IsNewPost /\ req.shape \in {"code", "codelines"}) =>
        /\ ~Contains(resp.excerpt, <<"l","e","t">>)
        /\ ~Contains(resp.excerpt, <<"<","p","r","e",">">>)

\* An excerpt was made of a body with a code block of two lines.
C17_Witness == IsNewPost /\ req.shape = "codelines" /\ req.words = 3

(***************************************************************************)
(* Properties of the parsed date                                           *)
(***************************************************************************)
\* The number a string of digits writes.
RECURSIVE ToNumber(_)
ToNumber(digits) ==
    IF digits = <<>> THEN 0
    ELSE 10 * ToNumber(SubSeq(digits, 1, Len(digits) - 1))
         + (CHOOSE d \in 0..9 : DigitChars[d + 1] = digits[Len(digits)])

IsLeapYear(y) == (y % 4 = 0 /\ y % 100 # 0) \/ y % 400 = 0

DaysInMonth(y, m) ==
    IF m = 2 THEN (IF IsLeapYear(y) THEN 29 ELSE 28)
    ELSE IF m \in {4, 6, 9, 11} THEN 30 ELSE 31

\* s is YYYY-MM-DD with digits only.
HasYmdShape(s) ==
    /\ Len(s) = 10
    /\ s[5] = "-" /\ s[8] = "-"
    /\ \A i \in {1, 2, 3, 4, 6, 7, 9, 10} : IsDigit(s[i])

\* The calendar date a string of YYYY-MM-DD shape writes.
YmdOf(s) ==
    [year  |-> ToNumber(SubSeq(s, 1, 4)),
     month |-> ToNumber(SubSeq(s, 6, 7)),
     day   |-> ToNumber(SubSeq(s, 9, 10))]

\* s is a valid YYYY-MM-DD calendar date.
IsCalendarDate(s) ==
    /\ HasYmdShape(s)
    /\ YmdOf(s).month \in 1..12
    /\ YmdOf(s).day \in 1..DaysInMonth(YmdOf(s).year, YmdOf(s).month)

\* C18: BlogPost::new keeps the raw date unchanged; the parsed date is
\* present, and is that date, when the raw date is a valid YYYY-MM-DD
\* calendar date, and absent only when it is not.
C18_ValidDateIsParsed ==
    IsNewPost =>
        /\ resp.date = req.date
        /\ IsCalendarDate(req.date) => resp.date_parsed = Some(YmdOf(req.date))
        /\ ~IsCalendarDate(req.date) => resp.date_parsed = None

\* A post was built from a raw date that is a calendar date.
C18_Witness == IsNewPost /\ req.date = <<"2","0","2","4","-","0","2","-","2","9">> /\ IsCalendarDate(req.date)

(***************************************************************************)
(* handlers/web.rs: the page handlers                                      *)
(***************************************************************************)
\* u32::to_string
RECURSIVE ToDecimal(_)
ToDecimal(n) ==
    IF n < 10 THEN <<DigitChars[n + 1]>>
    ELSE ToDecimal(n \div 10) \o <<DigitChars[(n % 10) + 1]>>

MonthNames ==
    << <<"J","a","n","u","a","r","y">>, <<"F","e","b","r","u","a","r","y">>, <<"M","a","r","c","h">>, <<"A","p","r","i","l">>, <<"M","a","y">>, <<"J","u","n","e">>, <<"J","u","l","y">>,
       <<"A","u","g","u","s","t">>, <<"S","e","p","t","e","m","b","e","r">>, <<"O","c","t","o","b","e","r">>, <<"N","o","v","e","m","b","e","r">>, <<"D","e","c","e","m","b","e","r">> >>

\* BlogPost::formatted_date: "%B %d, %Y" of the parsed date, else the raw date
formatted_date(post) ==
    IF post.date_parsed # None
    THEN MonthNames[post.date_parsed[1].month] \o <<" ">>
         \o TwoDigits(post.date_parsed[1].day) \o <<","," ">>
         \o FourDigits(post.date_parsed[1].year)
    ELSE post.date

TagSpan(tag) == <<"<","s","p","a","n"," ","c","l","a","s","s","=","\"","p","o","s","t","-","t","a","g","\"",">">> \o tag \o <<"<","/","s","p","a","n",">">>

\* TemplateEngine::render_post_tags
render_post_tags(tags) == Concat([i \in 1..Len(tags) |-> TagSpan(tags[i])])

\* TemplateEngine::render_post_tags_plain
render_post_tags_plain(tags) == Join(tags, <<","," ">>)

\* The card render_blog_list writes for one post (the line breaks,
\* indentation, wrapper divs and arrow of the literal left out).
BlogPostCard(post) ==
    <<"<","a","r","t","i","c","l","e"," ","c","l","a","s","s","=","\"","b","l","o","g","-","p","o","s","t","-","c","a","r","d","\"",">","<","h","2",">","<","a"," ","h","r","e","f","=","\"","/","b","l","o","g","/">> \o post.slug \o <<"\"",">">>
    \o post.title \o <<"<","/","a",">","<","/","h","2",">","<","s","p","a","n"," ","c","l","a","s","s","=","\"","p","o","s","t","-","r","e","a","d","i","n","g","-","t","i","m","e","\"",">">>
    \o ToDecimal(post.reading_time) \o <<" ","m","i","n"," ","r","e","a","d","<","/","s","p","a","n",">","<","t","i","m","e"," ","d","a","t","e","t","i","m","e","=","\"">>
    \o iso_date(post) \o <<"\"",">">> \o formatted_date(post) \o <<"<","/","t","i","m","e",">","<","a"," ","h","r","e","f","=","\"","/","b","l","o","g","/">>
    \o post.slug \o <<"\""," ","c","l","a","s","s","=","\"","r","e","a","d","-","m","o","r","e","\"",">","R","e","a","d"," ","m","o","r","e","<","/","a",">">>
    \o (IF post.tags = <<>> THEN <<>>
        ELSE <<"<","d","i","v"," ","c","l","a","s","s","=","\"","p","o","s","t","-","t","a","g","s","\"",">">> \o render_post_tags(post.tags) \o <<"<","/","d","i","v",">">>)
    \o <<"<","/","a","r","t","i","c","l","e",">">>

\* TemplateEngine::render_blog_list
render_blog_list(collection) ==
    Concat([i \in 1..Len(collection) |-> BlogPostCard(collection[i])])

\* The context serve_blog_post builds, in insertion order.
PostContext(post, post_slug) ==
    << << <<"B","L","O","G","_","T","I","T","L","E">>, post.title >>,
       << <<"B","L","O","G","_","D","A","T","E">>, formatted_date(post) >>,
       << <<"B","L","O","G","_","S","L","U","G">>, post_slug >>,
       << <<"B","L","O","G","_","E","X","C","E","R","P","T">>, IF post.description = <<>> THEN post.title ELSE post.description >>,
       << <<"B","L","O","G","_","T","A","G","S">>, render_post_tags(post.tags) >>,
       << <<"B","L","O","G","_","T","A","G","S","_","P","L","A","I","N">>, render_post_tags_plain(post.tags) >>,
       << <<"R","E","A","D","I","N","G","_","T","I","M","E">>, ToDecimal(post.reading_time) >>,
       << <<"B","L","O","G","_","C","O","N","T","E","N","T">>, post.content >> >>

Reversed(s) == [i \in 1..Len(s) |-> s[Len(s) + 1 - i]]

\* The entries of a context in one of two orders the map may yield them in.
InOrder(entries, order) == IF order = "reversed" THEN Reversed(entries) ELSE entries

\* The built-in pages of serve_404 and serve_500.
Fallback404 == <<"<","!","D","O","C","T","Y","P","E"," ","h","t","m","l",">","<","h","t","m","l",">","<","h","e","a","d",">","<","t","i","t","l","e",">","4","0","4"," ","-"," ","P","a","g","e"," ","N","o","t"," ","F","o","u","n","d","<","/","t","i","t","l","e",">","<","/","h","e","a","d",">","<","/","h","t","m","l",">">>
Fallback500 == <<"<","!","D","O","C","T","Y","P","E"," ","h","t","m","l",">","<","h","t","m","l",">","<","h","e","a","d",">","<","t","i","t","l","e",">","5","0","0"," ","-"," ","S","e","r","v","e","r"," ","E","r","r","o","r","<","/","t","i","t","l","e",">","<","/","h","e","a","d",">","<","/","h","t","m","l",">">>

\* Result::or_else
OrElse(result, alternative) == IF result.ok THEN result ELSE alternative

\* Result::unwrap_or_else
UnwrapOrElse(result, default) == IF result.ok THEN result.val ELSE default

(***************************************************************************)
(* The template files and requests the page handlers are run on            *)
(***************************************************************************)
PagePaths ==
    { "templates/index.html", "assets/index.html", "templates/blog.html",
      "assets/blog.html", "templates/post.html", "assets/post.html",
      "templates/404.html", "templates/500.html" }

\* What a template file holds when it can be read.
PageText(path) ==
    CASE path = "templates/index.html" -> <<"<","t","i","t","l","e",">","<","!","-","-"," ","S","I","T","E","_","T","I","T","L","E"," ","-","-",">","<","/","t","i","t","l","e",">","i","n","d","e","x">>
      [] path = "assets/index.html" -> <<"<","t","i","t","l","e",">","<","!","-","-"," ","S","I","T","E","_","T","I","T","L","E"," ","-","-",">","<","/","t","i","t","l","e",">","a","s","s","e","t","s"," ","i","n","d","e","x">>
      [] path = "templates/blog.html" -> <<"<","m","a","i","n",">","<","!","-","-"," ","B","L","O","G","_","P","O","S","T","S"," ","-","-",">","<","/","m","a","i","n",">","b","l","o","g">>
      [] path = "assets/blog.html" -> <<"<","m","a","i","n",">","<","!","-","-"," ","B","L","O","G","_","P","O","S","T","S"," ","-","-",">","<","/","m","a","i","n",">","a","s","s","e","t","s"," ","b","l","o","g">>
      [] path = "templates/post.html" ->
            <<"<","h","1",">","<","!","-","-"," ","B","L","O","G","_","T","I","T","L","E"," ","-","-",">","<","/","h","1",">","<","!","-","-"," ","B","L","O","G","_","D","A","T","E"," ","-","-",">","|","<","!","-","-"," ","R","E","A","D","I","N","G","_","T","I","M","E"," ","-","-",">","|","<","!","-","-"," ","B","L","O","G","_","T","A","G","S","_","P","L","A","I","N"," ","-","-",">","|","<","!","-","-"," ","B","L","O","G","_","C","O","N","T","E","N","T"," ","-","-",">">>
      [] path = "assets/post.html" -> <<"<","h","1",">","<","!","-","-"," ","B","L","O","G","_","T","I","T","L","E"," ","-","-",">","<","/","h","1",">","<","!","-","-"," ","B","L","O","G","_","S","L","U","G"," ","-","-",">","a","s","s","e","t","s"," ","p","o","s","t">>
      [] path = "templates/404.html" -> <<"<","h","1",">","4","0","4"," ","<","!","-","-"," ","S","I","T","E","_","T","I","T","L","E"," ","-","-",">","<","/","h","1",">">>
      [] path = "templates/500.html" -> <<"<","h","1",">","5","0","0"," ","<","!","-","-"," ","S","I","T","E","_","T","I","T","L","E"," ","-","-",">","<","/","h","1",">">>

\* std::fs::read_to_string(path) when the files of readable can be read.
ReadIn(readable, path) == IF path \in readable THEN Some(PageText(path)) ELSE None

FileNamed(name) == CHOOSE f \in FilePool : f.name = name

\* The posts directory of the running site.
SiteDirectory == Some(<< FileNamed(<<"a",".","m","d">>), FileNamed(<<"b",".","m","d">>), FileNamed(<<"c",".","m","d",".","m","d">>) >>)

PageKeys == { <<"a">>, <<"h","e","l","l","o","-","w","o","r","l","d">>, <<"c",".","m","d">>, UnknownKey }

\* A request that has not been served yet.
PageCalls ==
    {[op |-> op, done |-> FALSE, readable |-> readable, key |-> <<>>, order |-> "inserted"] :
        op \in {"serve_index", "serve_blog", "serve_404", "serve_500"},
        readable \in SUBSET PagePaths}
    \cup
    {[op |-> "serve_blog_post", done |-> FALSE, readable |-> readable, key |-> key, order |-> order] :
        readable \in SUBSET {"templates/post.html", "assets/post.html"},
        key \in PageKeys, order \in {"inserted", "reversed"}}

InitPages ==
    /\ dir = SiteDirectory
    /\ loadResult = "Ok"
    /\ posts = load_posts(SiteDirectory).val
    /\ req \in PageCalls
    /\ resp = None

\* The paths a handler reads: the second one only after the first failed.
PathsRead(readable, first, second) ==
    IF first \in readable THEN <<first>> ELSE <<first, second>>

MutRenderNoFallback(readable, first, second, entries) ==
    [ result |-> render_template(ReadIn(readable, first), entries, SiteConfig),
      read |-> <<first>> ]

\* render_template(first, ..).or_else(|_| render_template(second, ..))
RenderWithFallback(readable, first, second, entries) ==
    [ result |-> OrElse(render_template(ReadIn(readable, first), entries, SiteConfig),
                        render_template(ReadIn(readable, second), entries, SiteConfig)),
      read |-> PathsRead(readable, first, second) ]

\* render_template(path, ..).unwrap_or_else(|_| page)
RenderOrBuiltIn(readable, path, page) ==
    [ result |-> Ok(UnwrapOrElse(render_template(ReadIn(readable, path), <<>>, SiteConfig),
                                 page)),
      read |-> <<path>> ]

ServeIndex ==
    /\ req.op = "serve_index"
    /\ ~req.done
    /\ req' = [req EXCEPT !.done = TRUE]
    /\ resp' = RenderWithFallback(req.readable, "templates/index.html",
                                  "assets/index.html", <<>>)
    /\ UNCHANGED <<dir, loadResult, posts>>

ServeBlog ==
    /\ req.op = "serve_blog"
    /\ ~req.done
    /\ req' = [req EXCEPT !.done = TRUE]
    /\ resp' = RenderWithFallback(req.readable, "templates/blog.html", "assets/blog.html",
                                  << << <<"B","L","O","G","_","P","O","S","T","S">>, render_blog_list(posts) >> >>)
    /\ UNCHANGED <<dir, loadResult, posts>>

\* serve_blog_post: NotFound when no post has the key, else the post page.
ServePostPage ==
    /\ req.op = "serve_blog_post"
    /\ ~req.done
    /\ req' = [req EXCEPT !.done = TRUE]
    /\ \E found \in {get_post_by_slug(posts, req.key)} :
          resp' = IF found = None
                  THEN [result |-> Err("NotFound"), read |-> <<>>]
                  ELSE RenderWithFallback(
                           req.readable, "templates/post.html", "assets/post.html",
                           InOrder(PostContext(posts[found[1]], req.key), req.order))
    /\ UNCHANGED <<dir, loadResult, posts>>

Serve404 ==
    /\ req.op = "serve_404"
    /\ ~req.done
    /\ req' = [req EXCEPT !.done = TRUE]
    /\ resp' = RenderOrBuiltIn(req.readable, "templates/404.html", Fallback404)
    /\ UNCHANGED <<dir, loadResult, posts>>

Serve500 ==
    /\ req.op = "serve_500"
    /\ ~req.done
    /\ req' = [req EXCEPT !.done = TRUE]
    /\ resp' = RenderOrBuiltIn(req.readable, "templates/500.html", Fallback500)
    /\ UNCHANGED <<dir, loadResult, posts>>

NextPages == ServeIndex \/ ServeBlog \/ ServePostPage \/ Serve404 \/ Serve500

SpecPages == InitPages /\ [][NextPages]_vars

(***************************************************************************)
(* Properties of the template fallback                                     *)
(***************************************************************************)
\* A page handler has returned after asking for a template.
IsPage == req.op \in {"serve_index", "serve_blog", "serve_blog_post", "serve_404", "serve_500"}
          /\ req.done /\ resp.read # <<>>

\* The handlers written with or_else, and the ones with unwrap_or_else.
TwoPathHandlers == {"serve_index", "serve_blog", "serve_blog_post"}
BuiltInHandlers == {"serve_404", "serve_500"}

\* Some path the handler read could be read.
SomeReadSucceeded == \E i \in 1..Len(resp.read) : resp.read[i] \in req.readable

\* A failure is a Template error, and comes only after two attempts that both
\* failed.
FailsOnlyAfterTwoAttempts ==
    /\ ~(resp.read[1] \in req.readable) => Len(resp.read) = 2
    /\ resp.read[1] \in req.readable => Len(resp.read) = 1
    /\ resp.result.ok <=> SomeReadSucceeded
    /\ ~resp.result.ok => resp.result.err = "Template"
    /\ resp.result.ok =>
          \E entries \in {<<>>, << << <<"B","L","O","G","_","P","O","S","T","S">>, render_blog_list(posts) >> >>}
                         \cup {InOrder(PostContext(posts[i], req.key), req.order) :
                                  i \in 1..Len(posts)} :
              resp.result = render_template(Some(PageText(resp.read[Len(resp.read)])),
                                            entries, SiteConfig)

\* C19: an unreadable template gives a Template error; every page handler
\* that renders a template tries a second path after the first fails and
\* fails only when both attempts fail.
C19_EveryHandlerTriesSecondPath == IsPage => FailsOnlyAfterTwoAttempts

\* C19 (amended): serve_index, serve_blog and serve_blog_post try a second
\* path after the first fails and return a Template error only when both
\* fail; serve_404 and serve_500 read one path and never fail: they answer
\* with their built-in page when it cannot be read.
C19_FallbackPathOrBuiltInPage ==
    IsPage =>
        /\ req.op \in TwoPathHandlers => FailsOnlyAfterTwoAttempts
        /\ req.op \in BuiltInHandlers =>
              /\ Len(resp.read) = 1
              /\ resp.result.ok
              /\ ~SomeReadSucceeded =>
                    resp.result.val = (IF req.op = "serve_404" THEN Fallback404
                                       ELSE Fallback500)
              /\ SomeReadSucceeded =>
                    resp.result = render_template(Some(PageText(resp.read[1])), <<>>, SiteConfig)

\* The index was served from its second path after the first could not be
\* read.
C19_Witness ==
    /\ IsPage
    /\ req.op = "serve_index"
    /\ resp.read = <<"templates/index.html", "assets/index.html">>
    /\ resp.result.ok
    /\ resp.result.val = <<"<","t","i","t","l","e",">","S","i","t","e","<","/","t","i","t","l","e",">","a","s","s","e","t","s"," ","i","n","d","e","x">>

\* A post page failed after both of its templates could not be read.
C19_WitnessBothFail ==
    /\ IsPage
    /\ req.op = "serve_blog_post"
    /\ Len(resp.read) = 2
    /\ resp.result = Err("Template")

(***************************************************************************)
(* Concurrent requests on the shared collection.  Each request is served   *)
(* by a task that borrows state.posts and walks it one post at a time; the *)
(* tasks' steps interleave.  req[c] is the request of task c and how far   *)
(* its loop is, resp[c] what the task has built so far.                    *)
(***************************************************************************)
MaxConsumers == 2

Consumers == 1..MaxConsumers

SharedCalls ==
    {[op |-> op, key |-> <<>>, pc |-> "ready", next |-> 1] :
        op \in {"serve_rss_feed", "serve_sitemap", "serve_blog"}}
    \cup {[op |-> "serve_blog_post", key |-> key, pc |-> "ready", next |-> 1] :
            key \in {<<"h","e","l","l","o","-","w","o","r","l","d">>, <<"c",".","m","d">>, UnknownKey}}

\* The collection built at startup from the site's directory.
Snapshot == load_posts(SiteDirectory).val

InitShared ==
    /\ dir = SiteDirectory
    /\ loadResult = "Ok"
    /\ posts = Snapshot
    /\ req \in [Consumers -> SharedCalls]
    /\ resp = [c \in Consumers |-> None]

\* What a task holds before its loop starts: no items; the fixed entries of
\* the sitemap; an empty String; no post found.
BeforeLoop(call) ==
    CASE call.op = "serve_rss_feed" -> <<>>
      [] call.op = "serve_sitemap" -> FixedUrls(SiteConfig)
      [] call.op = "serve_blog" -> <<>>
      [] call.op = "serve_blog_post" -> None

MutFeedVisitInsertFirst(items, post) == <<FeedItem(SiteConfig, post)>> \o items

\* The body of generate_feed's loop: items.push(item)
FeedVisit(items, post) == Append(items, FeedItem(SiteConfig, post))

\* The body of generate_sitemap's loop: push_str of the post's <url>
SitemapVisit(urls, post, index) == Append(urls, PostUrl(SiteConfig, post, index))

\* The body of render_blog_list's loop: push_str of the post's card
ListVisit(text, post) == text \o BlogPostCard(post)

\* The closure of get_post_by_slug's find
LookupVisit(post, position, key) ==
    IF post.slug = key \/ post.path = key THEN Some(position) ELSE None

\* One iteration of the task's loop over the collection.
Visit(call, built, collection) ==
    CASE call.op = "serve_rss_feed" -> FeedVisit(built, collection[call.next])
      [] call.op = "serve_sitemap" -> SitemapVisit(built, collection[call.next], call.next - 1)
      [] call.op = "serve_blog" -> ListVisit(built, collection[call.next])
      [] call.op = "serve_blog_post" -> LookupVisit(collection[call.next], call.next, call.key)

\* The loop of the task has more to read: take(20) ends the feed's loop
\* early, find ends at the first match.
LoopContinues(call, built, collection) ==
    /\ call.next <= Len(collection)
    /\ call.op = "serve_rss_feed" => call.next <= FeedLimit
    /\ call.op = "serve_blog_post" => built = None

\* What the handler answers once its loop is over.
AfterLoop(call, built, collection) ==
    CASE call.op = "serve_rss_feed" ->
            [generate_feed(SiteConfig, <<>>) EXCEPT !.items = built]
      [] call.op = "serve_sitemap" -> built
      [] call.op = "serve_blog" ->
            RenderWithFallback(PagePaths, "templates/blog.html", "assets/blog.html",
                               << << <<"B","L","O","G","_","P","O","S","T","S">>, built >> >>)
      [] call.op = "serve_blog_post" ->
            IF built = None THEN [result |-> Err("NotFound"), read |-> <<>>]
            ELSE RenderWithFallback(PagePaths, "templates/post.html", "assets/post.html",
                                    PostContext(collection[built[1]], call.key))

Begin(c) ==
    /\ req[c].pc = "ready"
    /\ req' = [req EXCEPT ![c].pc = "reading"]
    /\ resp' = [resp EXCEPT ![c] = BeforeLoop(req[c])]
    /\ UNCHANGED <<dir, loadResult, posts>>

Read(c) ==
    /\ req[c].pc = "reading"
    /\ LoopContinues(req[c], resp[c], posts)
    /\ req' = [req EXCEPT ![c].next = @ + 1]
    /\ resp' = [resp EXCEPT ![c] = Visit(req[c], resp[c], posts)]
    /\ UNCHANGED <<dir, loadResult, posts>>

Answer(c) ==
    /\ req[c].pc = "reading"
    /\ ~LoopContinues(req[c], resp[c], posts)
    /\ req' = [req EXCEPT ![c].pc = "done"]
    /\ resp' = [resp EXCEPT ![c] = AfterLoop(req[c], resp[c], posts)]
    /\ UNCHANGED <<dir, loadResult, posts>>

NextShared == \E c \in Consumers : Begin(c) \/ Read(c) \/ Answer(c)

SpecShared == InitShared /\ [][NextShared]_vars

(***************************************************************************)
(* Properties of the shared collection                                     *)
(***************************************************************************)
\* What the request's handler answers when it runs alone on a collection.
AnswerAlone(call, collection) ==
    CASE call.op = "serve_rss_feed" -> generate_feed(SiteConfig, collection)
      [] call.op = "serve_sitemap" -> generate_sitemap(SiteConfig, collection)
      [] call.op = "serve_blog" ->
            RenderWithFallback(PagePaths, "templates/blog.html", "assets/blog.html",
                               << << <<"B","L","O","G","_","P","O","S","T","S">>, render_blog_list(collection) >> >>)
      [] call.op = "serve_blog_post" ->
            IF get_post_by_slug(collection, call.key) = None
            THEN [result |-> Err("NotFound"), read |-> <<>>]
            ELSE RenderWithFallback(
                     PagePaths, "templates/post.html", "assets/post.html",
                     PostContext(collection[get_post_by_slug(collection, call.key)[1]],
                                 call.key))

\* C20: whatever the interleaving of the tasks, the collection stays the one
\* that was built, and a task that is done holds the answer its handler gives
\* when run alone on that collection.
\* The answers of all requests, each run alone on the collection as built.
AnswersAlone == [call \in SharedCalls |-> AnswerAlone(call, Snapshot)]

C20_WitnessDone ==
    /\ \A c \in Consumers : req[c].pc = "done"
    /\ req[1].op = "serve_sitemap"
    /\ req[2].op = "serve_blog_post"
    /\ resp[2].result.ok

=============================================================================
